---- MODULE Spec2Model ----
(***************************************************************************)
(* State-machine model of APISelectionAgent                                *)
(* (src/agents/api_selection_agent.py): the cache-first orchestrator       *)
(* fetch_external_data, the two summary adapters (_fetch_from_google,      *)
(* _fetch_from_nasa) and the research-feed adapter (_fetch_from_arxiv).    *)
(* Texts are TLA+ strings; dictionaries are functions whose DOMAIN is the  *)
(* key set; Python lists are sequences.                                    *)
(***************************************************************************)
EXTENDS Integers, Sequences, FiniteSets, TLC

(***************************************************************************)
(* Bounds of the model.                                                    *)
(***************************************************************************)
\* largest configured max_retries the model constructs an agent with
MaxRetries == 2
\* number of distinct query texts callers use
MaxQueries == 2
\* how many times the wall clock may cross a new year during a run
MaxTicks == 1
\* longest feed document (number of entries) of the feed-only specification
MaxEntries == 3
\* the calendar year at which a run starts
BaseYear == 2025
\* max_retries of the agent the two interleaved threads call
RaceRetries == 1

(***************************************************************************)
(* Text helpers (Python str operations).                                   *)
(***************************************************************************)
Char(s, i) == SubSeq(s, i, i)

UpperAlpha ==
  <<"A", "B", "C", "D", "E", "F", "G", "H", "I", "J", "K", "L", "M",
    "N", "O", "P", "Q", "R", "S", "T", "U", "V", "W", "X", "Y", "Z">>
LowerAlpha ==
  <<"a", "b", "c", "d", "e", "f", "g", "h", "i", "j", "k", "l", "m",
    "n", "o", "p", "q", "r", "s", "t", "u", "v", "w", "x", "y", "z">>

\* A string of this module holds the characters up to U+00FF and, above
\* that, those of the Basic Multilingual Plane whose code point ends in a
\* byte of 0x80 or more. The tables below give Python's character classes on
\* these characters. Where a result holds a character outside them, the
\* character is written by its name, U+ and four hexadecimal digits.

\* the characters other than A-Z that str.lower() changes, and what it makes
\* of them, position by position (capital sigma is handled in LowerAt). 93
\* of the lower-case forms are outside the characters of a string and are
\* written by name; no result of str.lower() holds a capital U, so a name is
\* told from the text around it.
UpperOther ==
  <<"À", "Á", "Â", "Ã", "Ä", "Å", "Æ", "Ç", "È", "É",
    "Ê", "Ë", "Ì", "Í", "Î", "Ï", "Ð", "Ñ", "Ò", "Ó",
    "Ô", "Õ", "Ö", "Ø", "Ù", "Ú", "Û", "Ü", "Ý", "Þ",
    "Ɓ", "Ƃ", "Ƅ", "Ɔ", "Ƈ", "Ɖ", "Ɗ", "Ƌ", "Ǝ", "Ə",
    "Ɛ", "Ƒ", "Ɠ", "Ɣ", "Ɩ", "Ɨ", "Ƙ", "Ɯ", "Ɲ", "Ɵ",
    "Ơ", "Ƣ", "Ƥ", "Ʀ", "Ƨ", "Ʃ", "Ƭ", "Ʈ", "Ư", "Ʊ",
    "Ʋ", "Ƴ", "Ƶ", "Ʒ", "Ƹ", "Ƽ", "Ǆ", "ǅ", "Ǉ", "ǈ",
    "Ǌ", "ǋ", "Ǎ", "Ǐ", "Ǒ", "Ǔ", "Ǖ", "Ǘ", "Ǚ", "Ǜ",
    "Ǟ", "Ǡ", "Ǣ", "Ǥ", "Ǧ", "Ǩ", "Ǫ", "Ǭ", "Ǯ", "Ǳ",
    "ǲ", "Ǵ", "Ƕ", "Ƿ", "Ǹ", "Ǻ", "Ǽ", "Ǿ", "Ά", "Έ",
    "Ή", "Ί", "Ό", "Ύ", "Ώ", "Α", "Β", "Γ", "Δ", "Ε",
    "Ζ", "Η", "Θ", "Ι", "Κ", "Λ", "Μ", "Ν", "Ξ", "Ο",
    "Π", "Ρ", "Τ", "Υ", "Φ", "Χ", "Ψ", "Ω", "Ϊ", "Ϋ",
    "Ϗ", "Ϙ", "Ϛ", "Ϝ", "Ϟ", "Ϡ", "Ϣ", "Ϥ", "Ϧ", "Ϩ",
    "Ϫ", "Ϭ", "Ϯ", "ϴ", "Ϸ", "Ϲ", "Ϻ", "Ͻ", "Ͼ", "Ͽ",
    "Ҁ", "Ҋ", "Ҍ", "Ҏ", "Ґ", "Ғ", "Ҕ", "Җ", "Ҙ", "Қ",
    "Ҝ", "Ҟ", "Ҡ", "Ң", "Ҥ", "Ҧ", "Ҩ", "Ҫ", "Ҭ", "Ү",
    "Ұ", "Ҳ", "Ҵ", "Ҷ", "Ҹ", "Һ", "Ҽ", "Ҿ", "Ӏ", "Ӂ",
    "Ӄ", "Ӆ", "Ӈ", "Ӊ", "Ӌ", "Ӎ", "Ӑ", "Ӓ", "Ӕ", "Ӗ",
    "Ә", "Ӛ", "Ӝ", "Ӟ", "Ӡ", "Ӣ", "Ӥ", "Ӧ", "Ө", "Ӫ",
    "Ӭ", "Ӯ", "Ӱ", "Ӳ", "Ӵ", "Ӷ", "Ӹ", "Ӻ", "Ӽ", "Ӿ",
    "Ⴀ", "Ⴁ", "Ⴂ", "Ⴃ", "Ⴄ", "Ⴅ", "Ⴆ", "Ⴇ", "Ⴈ", "Ⴉ",
    "Ⴊ", "Ⴋ", "Ⴌ", "Ⴍ", "Ⴎ", "Ⴏ", "Ⴐ", "Ⴑ", "Ⴒ", "Ⴓ",
    "Ⴔ", "Ⴕ", "Ⴖ", "Ⴗ", "Ⴘ", "Ⴙ", "Ⴚ", "Ⴛ", "Ⴜ", "Ⴝ",
    "Ⴞ", "Ⴟ", "Ⴠ", "Ⴡ", "Ⴢ", "Ⴣ", "Ⴤ", "Ⴥ", "Ⴧ", "Ⴭ",
    "Ꭰ", "Ꭱ", "Ꭲ", "Ꭳ", "Ꭴ", "Ꭵ", "Ꭶ", "Ꭷ", "Ꭸ", "Ꭹ",
    "Ꭺ", "Ꭻ", "Ꭼ", "Ꭽ", "Ꭾ", "Ꭿ", "Ꮀ", "Ꮁ", "Ꮂ", "Ꮃ",
    "Ꮄ", "Ꮅ", "Ꮆ", "Ꮇ", "Ꮈ", "Ꮉ", "Ꮊ", "Ꮋ", "Ꮌ", "Ꮍ",
    "Ꮎ", "Ꮏ", "Ꮐ", "Ꮑ", "Ꮒ", "Ꮓ", "Ꮔ", "Ꮕ", "Ꮖ", "Ꮗ",
    "Ꮘ", "Ꮙ", "Ꮚ", "Ꮛ", "Ꮜ", "Ꮝ", "Ꮞ", "Ꮟ", "Ꮠ", "Ꮡ",
    "Ꮢ", "Ꮣ", "Ꮤ", "Ꮥ", "Ꮦ", "Ꮧ", "Ꮨ", "Ꮩ", "Ꮪ", "Ꮫ",
    "Ꮬ", "Ꮭ", "Ꮮ", "Ꮯ", "Ꮰ", "Ꮱ", "Ꮲ", "Ꮳ", "Ꮴ", "Ꮵ",
    "Ꮶ", "Ꮷ", "Ꮸ", "Ꮹ", "Ꮺ", "Ꮻ", "Ꮼ", "Ꮽ", "Ꮾ", "Ꮿ",
    "Ᏸ", "Ᏹ", "Ᏺ", "Ᏻ", "Ᏼ", "Ᏽ", "Ა", "Ბ", "Გ", "Დ",
    "Ე", "Ვ", "Ზ", "Თ", "Ი", "Კ", "Ლ", "Მ", "Ნ", "Ო",
    "Პ", "Ჟ", "Რ", "Ს", "Ტ", "Უ", "Ფ", "Ქ", "Ღ", "Ყ",
    "Შ", "Ჩ", "Ც", "Ძ", "Წ", "Ჭ", "Ხ", "Ჯ", "Ჰ", "Ჱ",
    "Ჲ", "Ჳ", "Ჴ", "Ჵ", "Ჶ", "Ჷ", "Ჸ", "Ჹ", "Ჺ", "Ჽ",
    "Ჾ", "Ჿ", "Ẁ", "Ẃ", "Ẅ", "Ẇ", "Ẉ", "Ẋ", "Ẍ", "Ẏ",
    "Ẑ", "Ẓ", "Ẕ", "ẞ", "Ạ", "Ả", "Ấ", "Ầ", "Ẩ", "Ẫ",
    "Ậ", "Ắ", "Ằ", "Ẳ", "Ẵ", "Ặ", "Ẹ", "Ẻ", "Ẽ", "Ế",
    "Ề", "Ể", "Ễ", "Ệ", "Ỉ", "Ị", "Ọ", "Ỏ", "Ố", "Ồ",
    "Ổ", "Ỗ", "Ộ", "Ớ", "Ờ", "Ở", "Ỡ", "Ợ", "Ụ", "Ủ",
    "Ứ", "Ừ", "Ử", "Ữ", "Ự", "Ỳ", "Ỵ", "Ỷ", "Ỹ", "Ỻ",
    "Ỽ", "Ỿ", "ᾈ", "ᾉ", "ᾊ", "ᾋ", "ᾌ", "ᾍ", "ᾎ", "ᾏ",
    "ᾘ", "ᾙ", "ᾚ", "ᾛ", "ᾜ", "ᾝ", "ᾞ", "ᾟ", "ᾨ", "ᾩ",
    "ᾪ", "ᾫ", "ᾬ", "ᾭ", "ᾮ", "ᾯ", "Ᾰ", "Ᾱ", "Ὰ", "Ά",
    "ᾼ", "Ὲ", "Έ", "Ὴ", "Ή", "ῌ", "Ῐ", "Ῑ", "Ὶ", "Ί",
    "Ῠ", "Ῡ", "Ὺ", "Ύ", "Ῥ", "Ὸ", "Ό", "Ὼ", "Ώ", "ῼ",
    "Ↄ", "Ⓐ", "Ⓑ", "Ⓒ", "Ⓓ", "Ⓔ", "Ⓕ", "Ⓖ", "Ⓗ", "Ⓘ",
    "Ⓙ", "Ⓚ", "Ⓛ", "Ⓜ", "Ⓝ", "Ⓞ", "Ⓟ", "Ⓠ", "Ⓡ", "Ⓢ",
    "Ⓣ", "Ⓤ", "Ⓥ", "Ⓦ", "Ⓧ", "Ⓨ", "Ⓩ", "Ⲁ", "Ⲃ", "Ⲅ",
    "Ⲇ", "Ⲉ", "Ⲋ", "Ⲍ", "Ⲏ", "Ⲑ", "Ⲓ", "Ⲕ", "Ⲗ", "Ⲙ",
    "Ⲛ", "Ⲝ", "Ⲟ", "Ⲡ", "Ⲣ", "Ⲥ", "Ⲧ", "Ⲩ", "Ⲫ", "Ⲭ",
    "Ⲯ", "Ⲱ", "Ⲳ", "Ⲵ", "Ⲷ", "Ⲹ", "Ⲻ", "Ⲽ", "Ⲿ", "Ⳁ",
    "Ⳃ", "Ⳅ", "Ⳇ", "Ⳉ", "Ⳋ", "Ⳍ", "Ⳏ", "Ⳑ", "Ⳓ", "Ⳕ",
    "Ⳗ", "Ⳙ", "Ⳛ", "Ⳝ", "Ⳟ", "Ⳡ", "Ⳣ", "Ⳬ", "Ⳮ", "Ⳳ",
    "Ꚁ", "Ꚃ", "Ꚅ", "Ꚇ", "Ꚉ", "Ꚋ", "Ꚍ", "Ꚏ", "Ꚑ", "Ꚓ",
    "Ꚕ", "Ꚗ", "Ꚙ", "Ꚛ", "Ꞁ", "Ꞃ", "Ꞅ", "Ꞇ", "Ꞌ", "Ɥ",
    "Ꞑ", "Ꞓ", "Ꞗ", "Ꞙ", "Ꞛ", "Ꞝ", "Ꞟ", "Ꞡ", "Ꞣ", "Ꞥ",
    "Ꞧ", "Ꞩ", "Ɦ", "Ɜ", "Ɡ", "Ɬ", "Ɪ", "Ʞ", "Ʇ", "Ʝ",
    "Ꭓ", "Ꞵ", "Ꞷ", "Ꞹ", "Ꞻ", "Ꞽ", "Ꞿ", "Ꟁ", "Ꟃ", "Ꞔ",
    "Ʂ", "Ᶎ", "Ꟈ", "Ꟊ", "Ꟑ", "Ꟗ", "Ꟙ", "Ꟶ">>

LowerOther ==
  <<"à", "á", "â", "ã", "ä", "å", "æ", "ç", "è", "é",
    "ê", "ë", "ì", "í", "î", "ï", "ð", "ñ", "ò", "ó",
    "ô", "õ", "ö", "ø", "ù", "ú", "û", "ü", "ý", "þ",
    "U+0253", "ƃ", "ƅ", "U+0254", "ƈ", "U+0256", "U+0257", "ƌ", "ǝ", "U+0259",
    "U+025B", "ƒ", "U+0260", "U+0263", "U+0269", "U+0268", "ƙ", "U+026F", "U+0272", "U+0275",
    "ơ", "ƣ", "ƥ", "ʀ", "ƨ", "ʃ", "ƭ", "ʈ", "ư", "ʊ",
    "ʋ", "ƴ", "ƶ", "ʒ", "ƹ", "ƽ", "ǆ", "ǆ", "ǉ", "ǉ",
    "ǌ", "ǌ", "ǎ", "ǐ", "ǒ", "ǔ", "ǖ", "ǘ", "ǚ", "ǜ",
    "ǟ", "ǡ", "ǣ", "ǥ", "ǧ", "ǩ", "ǫ", "ǭ", "ǯ", "ǳ",
    "ǳ", "ǵ", "ƕ", "ƿ", "ǹ", "ǻ", "ǽ", "ǿ", "ά", "έ",
    "ή", "ί", "ό", "ύ", "ώ", "α", "β", "γ", "δ", "ε",
    "ζ", "η", "θ", "ι", "κ", "λ", "μ", "ν", "ξ", "ο",
    "π", "ρ", "τ", "υ", "φ", "χ", "ψ", "ω", "ϊ", "ϋ",
    "ϗ", "ϙ", "ϛ", "ϝ", "ϟ", "ϡ", "ϣ", "ϥ", "ϧ", "ϩ",
    "ϫ", "ϭ", "ϯ", "θ", "ϸ", "ϲ", "ϻ", "U+037B", "U+037C", "U+037D",
    "ҁ", "ҋ", "ҍ", "ҏ", "ґ", "ғ", "ҕ", "җ", "ҙ", "қ",
    "ҝ", "ҟ", "ҡ", "ң", "ҥ", "ҧ", "ҩ", "ҫ", "ҭ", "ү",
    "ұ", "ҳ", "ҵ", "ҷ", "ҹ", "һ", "ҽ", "ҿ", "ӏ", "ӂ",
    "ӄ", "ӆ", "ӈ", "ӊ", "ӌ", "ӎ", "ӑ", "ӓ", "ӕ", "ӗ",
    "ә", "ӛ", "ӝ", "ӟ", "ӡ", "ӣ", "ӥ", "ӧ", "ө", "ӫ",
    "ӭ", "ӯ", "ӱ", "ӳ", "ӵ", "ӷ", "ӹ", "ӻ", "ӽ", "ӿ",
    "U+2D00", "U+2D01", "U+2D02", "U+2D03", "U+2D04", "U+2D05", "U+2D06", "U+2D07", "U+2D08", "U+2D09",
    "U+2D0A", "U+2D0B", "U+2D0C", "U+2D0D", "U+2D0E", "U+2D0F", "U+2D10", "U+2D11", "U+2D12", "U+2D13",
    "U+2D14", "U+2D15", "U+2D16", "U+2D17", "U+2D18", "U+2D19", "U+2D1A", "U+2D1B", "U+2D1C", "U+2D1D",
    "U+2D1E", "U+2D1F", "U+2D20", "U+2D21", "U+2D22", "U+2D23", "U+2D24", "U+2D25", "U+2D27", "U+2D2D",
    "U+AB70", "U+AB71", "U+AB72", "U+AB73", "U+AB74", "U+AB75", "U+AB76", "U+AB77", "U+AB78", "U+AB79",
    "U+AB7A", "U+AB7B", "U+AB7C", "U+AB7D", "U+AB7E", "U+AB7F", "ꮀ", "ꮁ", "ꮂ", "ꮃ",
    "ꮄ", "ꮅ", "ꮆ", "ꮇ", "ꮈ", "ꮉ", "ꮊ", "ꮋ", "ꮌ", "ꮍ",
    "ꮎ", "ꮏ", "ꮐ", "ꮑ", "ꮒ", "ꮓ", "ꮔ", "ꮕ", "ꮖ", "ꮗ",
    "ꮘ", "ꮙ", "ꮚ", "ꮛ", "ꮜ", "ꮝ", "ꮞ", "ꮟ", "ꮠ", "ꮡ",
    "ꮢ", "ꮣ", "ꮤ", "ꮥ", "ꮦ", "ꮧ", "ꮨ", "ꮩ", "ꮪ", "ꮫ",
    "ꮬ", "ꮭ", "ꮮ", "ꮯ", "ꮰ", "ꮱ", "ꮲ", "ꮳ", "ꮴ", "ꮵ",
    "ꮶ", "ꮷ", "ꮸ", "ꮹ", "ꮺ", "ꮻ", "ꮼ", "ꮽ", "ꮾ", "ꮿ",
    "ᏸ", "ᏹ", "ᏺ", "ᏻ", "ᏼ", "ᏽ", "ა", "ბ", "გ", "დ",
    "ე", "ვ", "ზ", "თ", "ი", "კ", "ლ", "მ", "ნ", "ო",
    "პ", "ჟ", "რ", "ს", "ტ", "უ", "ფ", "ქ", "ღ", "ყ",
    "შ", "ჩ", "ც", "ძ", "წ", "ჭ", "ხ", "ჯ", "ჰ", "ჱ",
    "ჲ", "ჳ", "ჴ", "ჵ", "ჶ", "ჷ", "ჸ", "ჹ", "ჺ", "ჽ",
    "ჾ", "ჿ", "ẁ", "ẃ", "ẅ", "ẇ", "ẉ", "ẋ", "ẍ", "ẏ",
    "ẑ", "ẓ", "ẕ", "ß", "ạ", "ả", "ấ", "ầ", "ẩ", "ẫ",
    "ậ", "ắ", "ằ", "ẳ", "ẵ", "ặ", "ẹ", "ẻ", "ẽ", "ế",
    "ề", "ể", "ễ", "ệ", "ỉ", "ị", "ọ", "ỏ", "ố", "ồ",
    "ổ", "ỗ", "ộ", "ớ", "ờ", "ở", "ỡ", "ợ", "ụ", "ủ",
    "ứ", "ừ", "ử", "ữ", "ự", "ỳ", "ỵ", "ỷ", "ỹ", "ỻ",
    "ỽ", "ỿ", "ᾀ", "ᾁ", "ᾂ", "ᾃ", "ᾄ", "ᾅ", "ᾆ", "ᾇ",
    "ᾐ", "ᾑ", "ᾒ", "ᾓ", "ᾔ", "ᾕ", "ᾖ", "ᾗ", "ᾠ", "ᾡ",
    "ᾢ", "ᾣ", "ᾤ", "ᾥ", "ᾦ", "ᾧ", "ᾰ", "ᾱ", "U+1F70", "U+1F71",
    "ᾳ", "U+1F72", "U+1F73", "U+1F74", "U+1F75", "ῃ", "ῐ", "ῑ", "U+1F76", "U+1F77",
    "ῠ", "ῡ", "U+1F7A", "U+1F7B", "ῥ", "U+1F78", "U+1F79", "U+1F7C", "U+1F7D", "ῳ",
    "ↄ", "ⓐ", "ⓑ", "ⓒ", "ⓓ", "ⓔ", "ⓕ", "ⓖ", "ⓗ", "ⓘ",
    "ⓙ", "ⓚ", "ⓛ", "ⓜ", "ⓝ", "ⓞ", "ⓟ", "ⓠ", "ⓡ", "ⓢ",
    "ⓣ", "ⓤ", "ⓥ", "ⓦ", "ⓧ", "ⓨ", "ⓩ", "ⲁ", "ⲃ", "ⲅ",
    "ⲇ", "ⲉ", "ⲋ", "ⲍ", "ⲏ", "ⲑ", "ⲓ", "ⲕ", "ⲗ", "ⲙ",
    "ⲛ", "ⲝ", "ⲟ", "ⲡ", "ⲣ", "ⲥ", "ⲧ", "ⲩ", "ⲫ", "ⲭ",
    "ⲯ", "ⲱ", "ⲳ", "ⲵ", "ⲷ", "ⲹ", "ⲻ", "ⲽ", "ⲿ", "ⳁ",
    "ⳃ", "ⳅ", "ⳇ", "ⳉ", "ⳋ", "ⳍ", "ⳏ", "ⳑ", "ⳓ", "ⳕ",
    "ⳗ", "ⳙ", "ⳛ", "ⳝ", "ⳟ", "ⳡ", "ⳣ", "ⳬ", "ⳮ", "ⳳ",
    "ꚁ", "ꚃ", "ꚅ", "ꚇ", "ꚉ", "ꚋ", "ꚍ", "ꚏ", "ꚑ", "ꚓ",
    "ꚕ", "ꚗ", "ꚙ", "ꚛ", "ꞁ", "ꞃ", "ꞅ", "ꞇ", "ꞌ", "U+0265",
    "ꞑ", "ꞓ", "ꞗ", "ꞙ", "ꞛ", "ꞝ", "ꞟ", "ꞡ", "ꞣ", "ꞥ",
    "ꞧ", "ꞩ", "U+0266", "U+025C", "U+0261", "U+026C", "U+026A", "ʞ", "ʇ", "ʝ",
    "U+AB53", "ꞵ", "ꞷ", "ꞹ", "ꞻ", "ꞽ", "ꞿ", "ꟁ", "ꟃ", "ꞔ",
    "ʂ", "ᶎ", "ꟈ", "ꟊ", "ꟑ", "ꟗ", "ꟙ", "ꟶ">>

\* the grave accent, which a string can hold only before a later apostrophe
Backquote == SubSeq("`'", 1, 1)

\* the characters str.lower() skips when it looks for a cased neighbour of a
\* capital sigma (Case_Ignorable)
CaseIgnorable ==
  {Backquote} \cup
  {"'", ".", ":", "^", "¨", "­", "¯", "´", "·",
   "¸", "ʰ", "ʱ", "ʲ", "ʳ", "ʴ", "ʵ", "ʶ", "ʷ", "ʸ",
   "ʹ", "ʺ", "ʻ", "ʼ", "ʽ", "ʾ", "ʿ", "ˀ", "ˁ", "˂",
   "˃", "˄", "˅", "ˆ", "ˇ", "ˈ", "ˉ", "ˊ", "ˋ", "ˌ",
   "ˍ", "ˎ", "ˏ", "ː", "ˑ", "˒", "˓", "˔", "˕", "˖",
   "˗", "˘", "˙", "˚", "˛", "˜", "˝", "˞", "˟", "ˠ",
   "ˡ", "ˢ", "ˣ", "ˤ", "˥", "˦", "˧", "˨", "˩", "˪",
   "˫", "ˬ", "˭", "ˮ", "˯", "˰", "˱", "˲", "˳", "˴",
   "˵", "˶", "˷", "˸", "˹", "˺", "˻", "˼", "˽", "˾",
   "˿", "΄", "΅", "·", "҃", "҄", "҅", "҆", "҇", "҈",
   "҉", "֑", "֒", "֓", "֔", "֕", "֖", "֗", "֘", "֙",
   "֚", "֛", "֜", "֝", "֞", "֟", "֠", "֡", "֢", "֣",
   "֤", "֥", "֦", "֧", "֨", "֩", "֪", "֫", "֬", "֭",
   "֮", "֯", "ְ", "ֱ", "ֲ", "ֳ", "ִ", "ֵ", "ֶ", "ַ",
   "ָ", "ֹ", "ֺ", "ֻ", "ּ", "ֽ", "ֿ", "ׁ", "ׂ", "ׄ",
   "ׅ", "ׇ", "״", "ۖ", "ۗ", "ۘ", "ۙ", "ۚ", "ۛ", "ۜ",
   "۝", "۟", "۠", "ۡ", "ۢ", "ۣ", "ۤ", "ۥ", "ۦ", "ۧ",
   "ۨ", "۪", "۫", "۬", "ۭ", "ަ", "ާ", "ި", "ީ", "ު",
   "ޫ", "ެ", "ޭ", "ޮ", "ޯ", "ް", "߫", "߬", "߭", "߮",
   "߯", "߰", "߱", "߲", "߳", "ߴ", "ߵ", "ߺ", "߽", "࢈",
   "࢐", "࢑", "࢘", "࢙", "࢚", "࢛", "࢜", "࢝", "࢞", "࢟",
   "ࣉ", "࣊", "࣋", "࣌", "࣍", "࣎", "࣏", "࣐", "࣑", "࣒",
   "࣓", "ࣔ", "ࣕ", "ࣖ", "ࣗ", "ࣘ", "ࣙ", "ࣚ", "ࣛ", "ࣜ",
   "ࣝ", "ࣞ", "ࣟ", "࣠", "࣡", "࣢", "ࣣ", "ࣤ", "ࣥ", "ࣦ",
   "ࣧ", "ࣨ", "ࣩ", "࣪", "࣫", "࣬", "࣭", "࣮", "࣯", "ࣰ",
   "ࣱ", "ࣲ", "ࣳ", "ࣴ", "ࣵ", "ࣶ", "ࣷ", "ࣸ", "ࣹ", "ࣺ",
   "ࣻ", "ࣼ", "ࣽ", "ࣾ", "ࣿ", "ঁ", "়", "ু", "ূ", "ৃ",
   "ৄ", "্", "ৢ", "ৣ", "৾", "ઁ", "ં", "઼", "ુ", "ૂ",
   "ૃ", "ૄ", "ૅ", "ે", "ૈ", "્", "ૢ", "ૣ", "ૺ", "ૻ",
   "ૼ", "૽", "૾", "૿", "ஂ", "ீ", "்", "ಁ", "಼", "ಿ",
   "ೆ", "ೌ", "್", "ೢ", "ೣ", "ඁ", "්", "ි", "ී", "ු",
   "ූ", "ັ", "ິ", "ີ", "ຶ", "ື", "ຸ", "ູ", "຺", "ົ",
   "ຼ", "ໆ", "່", "້", "໊", "໋", "໌", "ໍ", "ྀ", "ཱྀ",
   "ྂ", "ྃ", "྄", "྆", "྇", "ྍ", "ྎ", "ྏ", "ྐ", "ྑ",
   "ྒ", "ྒྷ", "ྔ", "ྕ", "ྖ", "ྗ", "ྙ", "ྚ", "ྛ", "ྜ",
   "ྜྷ", "ྞ", "ྟ", "ྠ", "ྡ", "ྡྷ", "ྣ", "ྤ", "ྥ", "ྦ",
   "ྦྷ", "ྨ", "ྩ", "ྪ", "ྫ", "ྫྷ", "ྭ", "ྮ", "ྯ", "ྰ",
   "ྱ", "ྲ", "ླ", "ྴ", "ྵ", "ྶ", "ྷ", "ྸ", "ྐྵ", "ྺ",
   "ྻ", "ྼ", "࿆", "ႂ", "ႅ", "ႆ", "ႍ", "ႝ", "ჼ", "឴",
   "឵", "ិ", "ី", "ឹ", "ឺ", "ុ", "ូ", "ួ", "ំ", "៉",
   "៊", "់", "៌", "៍", "៎", "៏", "័", "៑", "្", "៓",
   "ៗ", "៝", "ᢅ", "ᢆ", "ᢩ", "ᪧ", "᪰", "᪱", "᪲", "᪳",
   "᪴", "᪵", "᪶", "᪷", "᪸", "᪹", "᪺", "᪻", "᪼", "᪽",
   "᪾", "ᪿ", "ᫀ", "᫁", "᫂", "᫃", "᫄", "᫅", "᫆", "᫇",
   "᫈", "᫉", "᫊", "᫋", "ᫌ", "ᫍ", "ᫎ", "ᮀ", "ᮁ", "ᮢ",
   "ᮣ", "ᮤ", "ᮥ", "ᮨ", "ᮩ", "᮫", "ᮬ", "ᮭ", "᯦", "ᯨ",
   "ᯩ", "ᯭ", "ᯯ", "ᯰ", "ᯱ", "᳐", "᳑", "᳒", "᳔", "᳕",
   "᳖", "᳗", "᳘", "᳙", "᳚", "᳛", "᳜", "᳝", "᳞", "᳟",
   "᳠", "᳢", "᳣", "᳤", "᳥", "᳦", "᳧", "᳨", "᳭", "᳴",
   "᳸", "᳹", "ᶛ", "ᶜ", "ᶝ", "ᶞ", "ᶟ", "ᶠ", "ᶡ", "ᶢ",
   "ᶣ", "ᶤ", "ᶥ", "ᶦ", "ᶧ", "ᶨ", "ᶩ", "ᶪ", "ᶫ", "ᶬ",
   "ᶭ", "ᶮ", "ᶯ", "ᶰ", "ᶱ", "ᶲ", "ᶳ", "ᶴ", "ᶵ", "ᶶ",
   "ᶷ", "ᶸ", "ᶹ", "ᶺ", "ᶻ", "ᶼ", "ᶽ", "ᶾ", "ᶿ", "᷀",
   "᷁", "᷂", "᷃", "᷄", "᷅", "᷆", "᷇", "᷈", "᷉", "᷊",
   "᷋", "᷌", "᷍", "᷎", "᷏", "᷐", "᷑", "᷒", "ᷓ", "ᷔ",
   "ᷕ", "ᷖ", "ᷗ", "ᷘ", "ᷙ", "ᷚ", "ᷛ", "ᷜ", "ᷝ", "ᷞ",
   "ᷟ", "ᷠ", "ᷡ", "ᷢ", "ᷣ", "ᷤ", "ᷥ", "ᷦ", "ᷧ", "ᷨ",
   "ᷩ", "ᷪ", "ᷫ", "ᷬ", "ᷭ", "ᷮ", "ᷯ", "ᷰ", "ᷱ", "ᷲ",
   "ᷳ", "ᷴ", "᷵", "᷶", "᷷", "᷸", "᷹", "᷺", "᷻", "᷼",
   "᷽", "᷾", "᷿", "᾽", "᾿", "῀", "῁", "῍", "῎", "῏",
   "῝", "῞", "῟", "῭", "΅", "`", "´", "῾", "ₐ", "ₑ",
   "ₒ", "ₓ", "ₔ", "ₕ", "ₖ", "ₗ", "ₘ", "ₙ", "ₚ", "ₛ",
   "ₜ", "⃐", "⃑", "⃒", "⃓", "⃔", "⃕", "⃖", "⃗", "⃘",
   "⃙", "⃚", "⃛", "⃜", "⃝", "⃞", "⃟", "⃠", "⃡", "⃢",
   "⃣", "⃤", "⃥", "⃦", "⃧", "⃨", "⃩", "⃪", "⃫", "⃬",
   "⃭", "⃮", "⃯", "⃰", "⳯", "⳰", "⳱", "ⷠ", "ⷡ", "ⷢ",
   "ⷣ", "ⷤ", "ⷥ", "ⷦ", "ⷧ", "ⷨ", "ⷩ", "ⷪ", "ⷫ", "ⷬ",
   "ⷭ", "ⷮ", "ⷯ", "ⷰ", "ⷱ", "ⷲ", "ⷳ", "ⷴ", "ⷵ", "ⷶ",
   "ⷷ", "ⷸ", "ⷹ", "ⷺ", "ⷻ", "ⷼ", "ⷽ", "ⷾ", "ⷿ", "゙",
   "゚", "゛", "゜", "ゝ", "ゞ", "ー", "ヽ", "ヾ", "ꓸ", "ꓹ",
   "ꓺ", "ꓻ", "ꓼ", "ꓽ", "ꚜ", "ꚝ", "ꚞ", "ꚟ", "꛰", "꛱",
   "ꞈ", "꞉", "꞊", "ꟲ", "ꟳ", "ꟴ", "ꟸ", "ꟹ", "꣄", "ꣅ",
   "꣠", "꣡", "꣢", "꣣", "꣤", "꣥", "꣦", "꣧", "꣨", "꣩",
   "꣪", "꣫", "꣬", "꣭", "꣮", "꣯", "꣰", "꣱", "ꣿ", "ꦀ",
   "ꦁ", "ꦂ", "꦳", "ꦶ", "ꦷ", "ꦸ", "ꦹ", "ꦼ", "ꦽ", "ꧏ",
   "ꧥ", "ꧦ", "ꪰ", "ꪲ", "ꪳ", "ꪴ", "ꪷ", "ꪸ", "ꪾ", "꪿",
   "꫁", "ꫝ", "ꫬ", "ꫭ", "ꫳ", "ꫴ", "꫶", "ꯥ", "ꯨ", "꯭",
   "﮲", "﮳", "﮴", "﮵", "﮶", "﮷", "﮸", "﮹", "﮺", "﮻",
   "﮼", "﮽", "﮾", "﮿", "﯀", "﯁", "﯂", "﻿", "ﾞ", "ﾟ",
   "￣", "￹", "￺", "￻"}

\* the cased characters that are not skipped (Cased less Case_Ignorable)
CasedChars ==
  {"A", "B", "C", "D", "E", "F", "G", "H", "I", "J",
   "K", "L", "M", "N", "O", "P", "Q", "R", "S", "T",
   "U", "V", "W", "X", "Y", "Z", "a", "b", "c", "d",
   "e", "f", "g", "h", "i", "j", "k", "l", "m", "n",
   "o", "p", "q", "r", "s", "t", "u", "v", "w", "x",
   "y", "z", "ª", "µ", "º", "À", "Á", "Â", "Ã", "Ä",
   "Å", "Æ", "Ç", "È", "É", "Ê", "Ë", "Ì", "Í", "Î",
   "Ï", "Ð", "Ñ", "Ò", "Ó", "Ô", "Õ", "Ö", "Ø", "Ù",
   "Ú", "Û", "Ü", "Ý", "Þ", "ß", "à", "á", "â", "ã",
   "ä", "å", "æ", "ç", "è", "é", "ê", "ë", "ì", "í",
   "î", "ï", "ð", "ñ", "ò", "ó", "ô", "õ", "ö", "ø",
   "ù", "ú", "û", "ü", "ý", "þ", "ÿ", "ƀ", "Ɓ", "Ƃ",
   "ƃ", "Ƅ", "ƅ", "Ɔ", "Ƈ", "ƈ", "Ɖ", "Ɗ", "Ƌ", "ƌ",
   "ƍ", "Ǝ", "Ə", "Ɛ", "Ƒ", "ƒ", "Ɠ", "Ɣ", "ƕ", "Ɩ",
   "Ɨ", "Ƙ", "ƙ", "ƚ", "ƛ", "Ɯ", "Ɲ", "ƞ", "Ɵ", "Ơ",
   "ơ", "Ƣ", "ƣ", "Ƥ", "ƥ", "Ʀ", "Ƨ", "ƨ", "Ʃ", "ƪ",
   "ƫ", "Ƭ", "ƭ", "Ʈ", "Ư", "ư", "Ʊ", "Ʋ", "Ƴ", "ƴ",
   "Ƶ", "ƶ", "Ʒ", "Ƹ", "ƹ", "ƺ", "Ƽ", "ƽ", "ƾ", "ƿ",
   "Ǆ", "ǅ", "ǆ", "Ǉ", "ǈ", "ǉ", "Ǌ", "ǋ", "ǌ", "Ǎ",
   "ǎ", "Ǐ", "ǐ", "Ǒ", "ǒ", "Ǔ", "ǔ", "Ǖ", "ǖ", "Ǘ",
   "ǘ", "Ǚ", "ǚ", "Ǜ", "ǜ", "ǝ", "Ǟ", "ǟ", "Ǡ", "ǡ",
   "Ǣ", "ǣ", "Ǥ", "ǥ", "Ǧ", "ǧ", "Ǩ", "ǩ", "Ǫ", "ǫ",
   "Ǭ", "ǭ", "Ǯ", "ǯ", "ǰ", "Ǳ", "ǲ", "ǳ", "Ǵ", "ǵ",
   "Ƕ", "Ƿ", "Ǹ", "ǹ", "Ǻ", "ǻ", "Ǽ", "ǽ", "Ǿ", "ǿ",
   "ʀ", "ʁ", "ʂ", "ʃ", "ʄ", "ʅ", "ʆ", "ʇ", "ʈ", "ʉ",
   "ʊ", "ʋ", "ʌ", "ʍ", "ʎ", "ʏ", "ʐ", "ʑ", "ʒ", "ʓ",
   "ʕ", "ʖ", "ʗ", "ʘ", "ʙ", "ʚ", "ʛ", "ʜ", "ʝ", "ʞ",
   "ʟ", "ʠ", "ʡ", "ʢ", "ʣ", "ʤ", "ʥ", "ʦ", "ʧ", "ʨ",
   "ʩ", "ʪ", "ʫ", "ʬ", "ʭ", "ʮ", "ʯ", "Ά", "Έ", "Ή",
   "Ί", "Ό", "Ύ", "Ώ", "ΐ", "Α", "Β", "Γ", "Δ", "Ε",
   "Ζ", "Η", "Θ", "Ι", "Κ", "Λ", "Μ", "Ν", "Ξ", "Ο",
   "Π", "Ρ", "Σ", "Τ", "Υ", "Φ", "Χ", "Ψ", "Ω", "Ϊ",
   "Ϋ", "ά", "έ", "ή", "ί", "ΰ", "α", "β", "γ", "δ",
   "ε", "ζ", "η", "θ", "ι", "κ", "λ", "μ", "ν", "ξ",
   "ο", "π", "ρ", "ς", "σ", "τ", "υ", "φ", "χ", "ψ",
   "ω", "ϊ", "ϋ", "ό", "ύ", "ώ", "Ϗ", "ϐ", "ϑ", "ϒ",
   "ϓ", "ϔ", "ϕ", "ϖ", "ϗ", "Ϙ", "ϙ", "Ϛ", "ϛ", "Ϝ",
   "ϝ", "Ϟ", "ϟ", "Ϡ", "ϡ", "Ϣ", "ϣ", "Ϥ", "ϥ", "Ϧ",
   "ϧ", "Ϩ", "ϩ", "Ϫ", "ϫ", "Ϭ", "ϭ", "Ϯ", "ϯ", "ϰ",
   "ϱ", "ϲ", "ϳ", "ϴ", "ϵ", "Ϸ", "ϸ", "Ϲ", "Ϻ", "ϻ",
   "ϼ", "Ͻ", "Ͼ", "Ͽ", "Ҁ", "ҁ", "Ҋ", "ҋ", "Ҍ", "ҍ",
   "Ҏ", "ҏ", "Ґ", "ґ", "Ғ", "ғ", "Ҕ", "ҕ", "Җ", "җ",
   "Ҙ", "ҙ", "Қ", "қ", "Ҝ", "ҝ", "Ҟ", "ҟ", "Ҡ", "ҡ",
   "Ң", "ң", "Ҥ", "ҥ", "Ҧ", "ҧ", "Ҩ", "ҩ", "Ҫ", "ҫ",
   "Ҭ", "ҭ", "Ү", "ү", "Ұ", "ұ", "Ҳ", "ҳ", "Ҵ", "ҵ",
   "Ҷ", "ҷ", "Ҹ", "ҹ", "Һ", "һ", "Ҽ", "ҽ", "Ҿ", "ҿ",
   "Ӏ", "Ӂ", "ӂ", "Ӄ", "ӄ", "Ӆ", "ӆ", "Ӈ", "ӈ", "Ӊ",
   "ӊ", "Ӌ", "ӌ", "Ӎ", "ӎ", "ӏ", "Ӑ", "ӑ", "Ӓ", "ӓ",
   "Ӕ", "ӕ", "Ӗ", "ӗ", "Ә", "ә", "Ӛ", "ӛ", "Ӝ", "ӝ",
   "Ӟ", "ӟ", "Ӡ", "ӡ", "Ӣ", "ӣ", "Ӥ", "ӥ", "Ӧ", "ӧ",
   "Ө", "ө", "Ӫ", "ӫ", "Ӭ", "ӭ", "Ӯ", "ӯ", "Ӱ", "ӱ",
   "Ӳ", "ӳ", "Ӵ", "ӵ", "Ӷ", "ӷ", "Ӹ", "ӹ", "Ӻ", "ӻ",
   "Ӽ", "ӽ", "Ӿ", "ӿ", "ր", "ց", "ւ", "փ", "ք", "օ",
   "ֆ", "և", "ֈ", "Ⴀ", "Ⴁ", "Ⴂ", "Ⴃ", "Ⴄ", "Ⴅ", "Ⴆ",
   "Ⴇ", "Ⴈ", "Ⴉ", "Ⴊ", "Ⴋ", "Ⴌ", "Ⴍ", "Ⴎ", "Ⴏ", "Ⴐ",
   "Ⴑ", "Ⴒ", "Ⴓ", "Ⴔ", "Ⴕ", "Ⴖ", "Ⴗ", "Ⴘ", "Ⴙ", "Ⴚ",
   "Ⴛ", "Ⴜ", "Ⴝ", "Ⴞ", "Ⴟ", "Ⴠ", "Ⴡ", "Ⴢ", "Ⴣ", "Ⴤ",
   "Ⴥ", "Ⴧ", "Ⴭ", "ა", "ბ", "გ", "დ", "ე", "ვ", "ზ",
   "თ", "ი", "კ", "ლ", "მ", "ნ", "ო", "პ", "ჟ", "რ",
   "ს", "ტ", "უ", "ფ", "ქ", "ღ", "ყ", "შ", "ჩ", "ც",
   "ძ", "წ", "ჭ", "ხ", "ჯ", "ჰ", "ჱ", "ჲ", "ჳ", "ჴ",
   "ჵ", "ჶ", "ჷ", "ჸ", "ჹ", "ჺ", "ჽ", "ჾ", "ჿ", "Ꭰ",
   "Ꭱ", "Ꭲ", "Ꭳ", "Ꭴ", "Ꭵ", "Ꭶ", "Ꭷ", "Ꭸ", "Ꭹ", "Ꭺ",
   "Ꭻ", "Ꭼ", "Ꭽ", "Ꭾ", "Ꭿ", "Ꮀ", "Ꮁ", "Ꮂ", "Ꮃ", "Ꮄ",
   "Ꮅ", "Ꮆ", "Ꮇ", "Ꮈ", "Ꮉ", "Ꮊ", "Ꮋ", "Ꮌ", "Ꮍ", "Ꮎ",
   "Ꮏ", "Ꮐ", "Ꮑ", "Ꮒ", "Ꮓ", "Ꮔ", "Ꮕ", "Ꮖ", "Ꮗ", "Ꮘ",
   "Ꮙ", "Ꮚ", "Ꮛ", "Ꮜ", "Ꮝ", "Ꮞ", "Ꮟ", "Ꮠ", "Ꮡ", "Ꮢ",
   "Ꮣ", "Ꮤ", "Ꮥ", "Ꮦ", "Ꮧ", "Ꮨ", "Ꮩ", "Ꮪ", "Ꮫ", "Ꮬ",
   "Ꮭ", "Ꮮ", "Ꮯ", "Ꮰ", "Ꮱ", "Ꮲ", "Ꮳ", "Ꮴ", "Ꮵ", "Ꮶ",
   "Ꮷ", "Ꮸ", "Ꮹ", "Ꮺ", "Ꮻ", "Ꮼ", "Ꮽ", "Ꮾ", "Ꮿ", "Ᏸ",
   "Ᏹ", "Ᏺ", "Ᏻ", "Ᏼ", "Ᏽ", "ᏸ", "ᏹ", "ᏺ", "ᏻ", "ᏼ",
   "ᏽ", "ᲀ", "ᲁ", "ᲂ", "ᲃ", "ᲄ", "ᲅ", "ᲆ", "ᲇ", "ᲈ",
   "Ა", "Ბ", "Გ", "Დ", "Ე", "Ვ", "Ზ", "Თ", "Ი", "Კ",
   "Ლ", "Მ", "Ნ", "Ო", "Პ", "Ჟ", "Რ", "Ს", "Ტ", "Უ",
   "Ფ", "Ქ", "Ღ", "Ყ", "Შ", "Ჩ", "Ც", "Ძ", "Წ", "Ჭ",
   "Ხ", "Ჯ", "Ჰ", "Ჱ", "Ჲ", "Ჳ", "Ჴ", "Ჵ", "Ჶ", "Ჷ",
   "Ჸ", "Ჹ", "Ჺ", "Ჽ", "Ჾ", "Ჿ", "ᶀ", "ᶁ", "ᶂ", "ᶃ",
   "ᶄ", "ᶅ", "ᶆ", "ᶇ", "ᶈ", "ᶉ", "ᶊ", "ᶋ", "ᶌ", "ᶍ",
   "ᶎ", "ᶏ", "ᶐ", "ᶑ", "ᶒ", "ᶓ", "ᶔ", "ᶕ", "ᶖ", "ᶗ",
   "ᶘ", "ᶙ", "ᶚ", "Ẁ", "ẁ", "Ẃ", "ẃ", "Ẅ", "ẅ", "Ẇ",
   "ẇ", "Ẉ", "ẉ", "Ẋ", "ẋ", "Ẍ", "ẍ", "Ẏ", "ẏ", "Ẑ",
   "ẑ", "Ẓ", "ẓ", "Ẕ", "ẕ", "ẖ", "ẗ", "ẘ", "ẙ", "ẚ",
   "ẛ", "ẜ", "ẝ", "ẞ", "ẟ", "Ạ", "ạ", "Ả", "ả", "Ấ",
   "ấ", "Ầ", "ầ", "Ẩ", "ẩ", "Ẫ", "ẫ", "Ậ", "ậ", "Ắ",
   "ắ", "Ằ", "ằ", "Ẳ", "ẳ", "Ẵ", "ẵ", "Ặ", "ặ", "Ẹ",
   "ẹ", "Ẻ", "ẻ", "Ẽ", "ẽ", "Ế", "ế", "Ề", "ề", "Ể",
   "ể", "Ễ", "ễ", "Ệ", "ệ", "Ỉ", "ỉ", "Ị", "ị", "Ọ",
   "ọ", "Ỏ", "ỏ", "Ố", "ố", "Ồ", "ồ", "Ổ", "ổ", "Ỗ",
   "ỗ", "Ộ", "ộ", "Ớ", "ớ", "Ờ", "ờ", "Ở", "ở", "Ỡ",
   "ỡ", "Ợ", "ợ", "Ụ", "ụ", "Ủ", "ủ", "Ứ", "ứ", "Ừ",
   "ừ", "Ử", "ử", "Ữ", "ữ", "Ự", "ự", "Ỳ", "ỳ", "Ỵ",
   "ỵ", "Ỷ", "ỷ", "Ỹ", "ỹ", "Ỻ", "ỻ", "Ỽ", "ỽ", "Ỿ",
   "ỿ", "ᾀ", "ᾁ", "ᾂ", "ᾃ", "ᾄ", "ᾅ", "ᾆ", "ᾇ", "ᾈ",
   "ᾉ", "ᾊ", "ᾋ", "ᾌ", "ᾍ", "ᾎ", "ᾏ", "ᾐ", "ᾑ", "ᾒ",
   "ᾓ", "ᾔ", "ᾕ", "ᾖ", "ᾗ", "ᾘ", "ᾙ", "ᾚ", "ᾛ", "ᾜ",
   "ᾝ", "ᾞ", "ᾟ", "ᾠ", "ᾡ", "ᾢ", "ᾣ", "ᾤ", "ᾥ", "ᾦ",
   "ᾧ", "ᾨ", "ᾩ", "ᾪ", "ᾫ", "ᾬ", "ᾭ", "ᾮ", "ᾯ", "ᾰ",
   "ᾱ", "ᾲ", "ᾳ", "ᾴ", "ᾶ", "ᾷ", "Ᾰ", "Ᾱ", "Ὰ", "Ά",
   "ᾼ", "ι", "ῂ", "ῃ", "ῄ", "ῆ", "ῇ", "Ὲ", "Έ", "Ὴ",
   "Ή", "ῌ", "ῐ", "ῑ", "ῒ", "ΐ", "ῖ", "ῗ", "Ῐ", "Ῑ",
   "Ὶ", "Ί", "ῠ", "ῡ", "ῢ", "ΰ", "ῤ", "ῥ", "ῦ", "ῧ",
   "Ῠ", "Ῡ", "Ὺ", "Ύ", "Ῥ", "ῲ", "ῳ", "ῴ", "ῶ", "ῷ",
   "Ὸ", "Ό", "Ὼ", "Ώ", "ῼ", "Ↄ", "ↄ", "Ⓐ", "Ⓑ", "Ⓒ",
   "Ⓓ", "Ⓔ", "Ⓕ", "Ⓖ", "Ⓗ", "Ⓘ", "Ⓙ", "Ⓚ", "Ⓛ", "Ⓜ",
   "Ⓝ", "Ⓞ", "Ⓟ", "Ⓠ", "Ⓡ", "Ⓢ", "Ⓣ", "Ⓤ", "Ⓥ", "Ⓦ",
   "Ⓧ", "Ⓨ", "Ⓩ", "ⓐ", "ⓑ", "ⓒ", "ⓓ", "ⓔ", "ⓕ", "ⓖ",
   "ⓗ", "ⓘ", "ⓙ", "ⓚ", "ⓛ", "ⓜ", "ⓝ", "ⓞ", "ⓟ", "ⓠ",
   "ⓡ", "ⓢ", "ⓣ", "ⓤ", "ⓥ", "ⓦ", "ⓧ", "ⓨ", "ⓩ", "Ⲁ",
   "ⲁ", "Ⲃ", "ⲃ", "Ⲅ", "ⲅ", "Ⲇ", "ⲇ", "Ⲉ", "ⲉ", "Ⲋ",
   "ⲋ", "Ⲍ", "ⲍ", "Ⲏ", "ⲏ", "Ⲑ", "ⲑ", "Ⲓ", "ⲓ", "Ⲕ",
   "ⲕ", "Ⲗ", "ⲗ", "Ⲙ", "ⲙ", "Ⲛ", "ⲛ", "Ⲝ", "ⲝ", "Ⲟ",
   "ⲟ", "Ⲡ", "ⲡ", "Ⲣ", "ⲣ", "Ⲥ", "ⲥ", "Ⲧ", "ⲧ", "Ⲩ",
   "ⲩ", "Ⲫ", "ⲫ", "Ⲭ", "ⲭ", "Ⲯ", "ⲯ", "Ⲱ", "ⲱ", "Ⲳ",
   "ⲳ", "Ⲵ", "ⲵ", "Ⲷ", "ⲷ", "Ⲹ", "ⲹ", "Ⲻ", "ⲻ", "Ⲽ",
   "ⲽ", "Ⲿ", "ⲿ", "Ⳁ", "ⳁ", "Ⳃ", "ⳃ", "Ⳅ", "ⳅ", "Ⳇ",
   "ⳇ", "Ⳉ", "ⳉ", "Ⳋ", "ⳋ", "Ⳍ", "ⳍ", "Ⳏ", "ⳏ", "Ⳑ",
   "ⳑ", "Ⳓ", "ⳓ", "Ⳕ", "ⳕ", "Ⳗ", "ⳗ", "Ⳙ", "ⳙ", "Ⳛ",
   "ⳛ", "Ⳝ", "ⳝ", "Ⳟ", "ⳟ", "Ⳡ", "ⳡ", "Ⳣ", "ⳣ", "ⳤ",
   "Ⳬ", "ⳬ", "Ⳮ", "ⳮ", "Ⳳ", "ⳳ", "Ꚁ", "ꚁ", "Ꚃ", "ꚃ",
   "Ꚅ", "ꚅ", "Ꚇ", "ꚇ", "Ꚉ", "ꚉ", "Ꚋ", "ꚋ", "Ꚍ", "ꚍ",
   "Ꚏ", "ꚏ", "Ꚑ", "ꚑ", "Ꚓ", "ꚓ", "Ꚕ", "ꚕ", "Ꚗ", "ꚗ",
   "Ꚙ", "ꚙ", "Ꚛ", "ꚛ", "Ꞁ", "ꞁ", "Ꞃ", "ꞃ", "Ꞅ", "ꞅ",
   "Ꞇ", "ꞇ", "Ꞌ", "ꞌ", "Ɥ", "ꞎ", "Ꞑ", "ꞑ", "Ꞓ", "ꞓ",
   "ꞔ", "ꞕ", "Ꞗ", "ꞗ", "Ꞙ", "ꞙ", "Ꞛ", "ꞛ", "Ꞝ", "ꞝ",
   "Ꞟ", "ꞟ", "Ꞡ", "ꞡ", "Ꞣ", "ꞣ", "Ꞥ", "ꞥ", "Ꞧ", "ꞧ",
   "Ꞩ", "ꞩ", "Ɦ", "Ɜ", "Ɡ", "Ɬ", "Ɪ", "ꞯ", "Ʞ", "Ʇ",
   "Ʝ", "Ꭓ", "Ꞵ", "ꞵ", "Ꞷ", "ꞷ", "Ꞹ", "ꞹ", "Ꞻ", "ꞻ",
   "Ꞽ", "ꞽ", "Ꞿ", "ꞿ", "Ꟁ", "ꟁ", "Ꟃ", "ꟃ", "Ꞔ", "Ʂ",
   "Ᶎ", "Ꟈ", "ꟈ", "Ꟊ", "ꟊ", "Ꟑ", "ꟑ", "ꟓ", "ꟕ", "Ꟗ",
   "ꟗ", "Ꟙ", "ꟙ", "Ꟶ", "ꟶ", "ꟺ", "ꮀ", "ꮁ", "ꮂ", "ꮃ",
   "ꮄ", "ꮅ", "ꮆ", "ꮇ", "ꮈ", "ꮉ", "ꮊ", "ꮋ", "ꮌ", "ꮍ",
   "ꮎ", "ꮏ", "ꮐ", "ꮑ", "ꮒ", "ꮓ", "ꮔ", "ꮕ", "ꮖ", "ꮗ",
   "ꮘ", "ꮙ", "ꮚ", "ꮛ", "ꮜ", "ꮝ", "ꮞ", "ꮟ", "ꮠ", "ꮡ",
   "ꮢ", "ꮣ", "ꮤ", "ꮥ", "ꮦ", "ꮧ", "ꮨ", "ꮩ", "ꮪ", "ꮫ",
   "ꮬ", "ꮭ", "ꮮ", "ꮯ", "ꮰ", "ꮱ", "ꮲ", "ꮳ", "ꮴ", "ꮵ",
   "ꮶ", "ꮷ", "ꮸ", "ꮹ", "ꮺ", "ꮻ", "ꮼ", "ꮽ", "ꮾ", "ꮿ"}

\* the characters str.strip() removes (str.isspace)
SpaceChars ==
  {"\t", "\n", "", "\f", "\r", "", "", "", "", " ",
   "", " ", " "}

\* the decimal digits (\d of a str pattern, and int()), one row per script,
\* each row in the order 0..9; the first row is 0-9
DigitRows ==
  <<<<"0", "1", "2", "3", "4", "5", "6", "7", "8", "9">>,
    <<"۰", "۱", "۲", "۳", "۴", "۵", "۶", "۷", "۸", "۹">>,
    <<"߀", "߁", "߂", "߃", "߄", "߅", "߆", "߇", "߈", "߉">>,
    <<"০", "১", "২", "৩", "৪", "৫", "৬", "৭", "৮", "৯">>,
    <<"૦", "૧", "૨", "૩", "૪", "૫", "૬", "૭", "૮", "૯">>,
    <<"௦", "௧", "௨", "௩", "௪", "௫", "௬", "௭", "௮", "௯">>,
    <<"೦", "೧", "೨", "೩", "೪", "೫", "೬", "೭", "೮", "೯">>,
    <<"෦", "෧", "෨", "෩", "෪", "෫", "෬", "෭", "෮", "෯">>,
    <<"໐", "໑", "໒", "໓", "໔", "໕", "໖", "໗", "໘", "໙">>,
    <<"႐", "႑", "႒", "႓", "႔", "႕", "႖", "႗", "႘", "႙">>,
    <<"០", "១", "២", "៣", "៤", "៥", "៦", "៧", "៨", "៩">>,
    <<"᧐", "᧑", "᧒", "᧓", "᧔", "᧕", "᧖", "᧗", "᧘", "᧙">>,
    <<"᪀", "᪁", "᪂", "᪃", "᪄", "᪅", "᪆", "᪇", "᪈", "᪉">>,
    <<"᪐", "᪑", "᪒", "᪓", "᪔", "᪕", "᪖", "᪗", "᪘", "᪙">>,
    <<"᮰", "᮱", "᮲", "᮳", "᮴", "᮵", "᮶", "᮷", "᮸", "᮹">>,
    <<"꣐", "꣑", "꣒", "꣓", "꣔", "꣕", "꣖", "꣗", "꣘", "꣙">>,
    <<"꧐", "꧑", "꧒", "꧓", "꧔", "꧕", "꧖", "꧗", "꧘", "꧙">>,
    <<"꧰", "꧱", "꧲", "꧳", "꧴", "꧵", "꧶", "꧷", "꧸", "꧹">>,
    <<"꯰", "꯱", "꯲", "꯳", "꯴", "꯵", "꯶", "꯷", "꯸", "꯹">>>>

\* the characters for which str.isprintable() is false, in runs of
\* consecutive code points: the code point of the first, and the characters
NonPrintableRuns ==
  <<<<1, "\t\n\f\r">>,
    <<127, " ">>,
    <<173, "­">>,
    <<896, "΀΁΂΃">>,
    <<907, "΋">>,
    <<909, "΍">>,
    <<930, "΢">>,
    <<1419, "֋֌">>,
    <<1424, "֐">>,
    <<1480, "׈׉׊׋׌׍׎׏">>,
    <<1515, "׫׬׭׮">>,
    <<1525, "׵׶׷׸׹׺׻׼׽׾׿">>,
    <<1757, "۝">>,
    <<1970, "޲޳޴޵޶޷޸޹޺޻޼޽޾޿">>,
    <<2043, "߻߼">>,
    <<2191, "࢏࢐࢑࢒࢓࢔࢕࢖ࢗ">>,
    <<2274, "࣢">>,
    <<2436, "঄">>,
    <<2445, "঍঎">>,
    <<2449, "঑঒">>,
    <<2473, "঩">>,
    <<2481, "঱">>,
    <<2483, "঳঴঵">>,
    <<2490, "঺঻">>,
    <<2501, "৅৆">>,
    <<2505, "৉৊">>,
    <<2511, "৏৐৑৒৓৔৕৖">>,
    <<2520, "৘৙৚৛">>,
    <<2526, "৞">>,
    <<2532, "৤৥">>,
    <<2559, "৿">>,
    <<2688, "઀">>,
    <<2692, "઄">>,
    <<2702, "઎">>,
    <<2706, "઒">>,
    <<2729, "઩">>,
    <<2737, "઱">>,
    <<2740, "઴">>,
    <<2746, "઺઻">>,
    <<2758, "૆">>,
    <<2762, "૊">>,
    <<2766, "૎૏">>,
    <<2769, "૑૒૓૔૕૖૗૘૙૚૛૜૝૞૟">>,
    <<2788, "૤૥">>,
    <<2802, "૲૳૴૵૶૷૸">>,
    <<2944, "஀஁">>,
    <<2948, "஄">>,
    <<2955, "஋஌஍">>,
    <<2961, "஑">>,
    <<2966, "஖஗஘">>,
    <<2971, "஛">>,
    <<2973, "஝">>,
    <<2976, "஠஡஢">>,
    <<2981, "஥஦஧">>,
    <<2987, "஫஬஭">>,
    <<3002, "஺஻஼஽">>,
    <<3011, "௃௄௅">>,
    <<3017, "௉">>,
    <<3022, "௎௏">>,
    <<3025, "௑௒௓௔௕௖">>,
    <<3032, "௘௙௚௛௜௝௞௟௠௡௢௣௤௥">>,
    <<3067, "௻௼௽௾௿">>,
    <<3213, "಍">>,
    <<3217, "಑">>,
    <<3241, "಩">>,
    <<3252, "಴">>,
    <<3258, "಺಻">>,
    <<3269, "೅">>,
    <<3273, "೉">>,
    <<3278, "೎೏೐೑೒೓೔">>,
    <<3287, "೗೘೙೚೛೜">>,
    <<3295, "೟">>,
    <<3300, "೤೥">>,
    <<3312, "೰">>,
    <<3315, "ೳ೴೵೶೷೸೹೺೻೼೽೾೿">>,
    <<3456, "඀">>,
    <<3460, "඄">>,
    <<3479, "඗඘඙">>,
    <<3506, "඲">>,
    <<3516, "඼">>,
    <<3518, "඾඿">>,
    <<3527, "෇෈෉">>,
    <<3531, "෋෌෍෎">>,
    <<3541, "෕">>,
    <<3543, "෗">>,
    <<3552, "෠෡෢෣෤෥">>,
    <<3568, "෰෱">>,
    <<3573, "෵෶෷෸෹෺෻෼෽෾෿">>,
    <<3712, "຀">>,
    <<3715, "຃">>,
    <<3717, "຅">>,
    <<3723, "຋">>,
    <<3748, "຤">>,
    <<3750, "຦">>,
    <<3774, "຾຿">>,
    <<3781, "໅">>,
    <<3783, "໇">>,
    <<3790, "໎໏">>,
    <<3802, "໚໛">>,
    <<3808, "໠໡໢໣໤໥໦໧໨໩໪໫໬໭໮໯໰໱໲໳໴໵໶໷໸໹໺໻໼໽໾໿">>,
    <<3992, "྘">>,
    <<4029, "྽">>,
    <<4045, "࿍">>,
    <<4059, "࿛࿜࿝࿞࿟࿠࿡࿢࿣࿤࿥࿦࿧࿨࿩࿪࿫࿬࿭࿮࿯࿰࿱࿲࿳࿴࿵࿶࿷࿸࿹࿺࿻࿼࿽࿾࿿">>,
    <<4294, "჆">>,
    <<4296, "჈჉჊჋჌">>,
    <<4302, "჎჏">>,
    <<4745, "኉">>,
    <<4750, "኎኏">>,
    <<4785, "኱">>,
    <<4790, "኶኷">>,
    <<4799, "኿">>,
    <<4801, "዁">>,
    <<4806, "዆዇">>,
    <<4823, "዗">>,
    <<5018, "᎚᎛᎜᎝᎞᎟">>,
    <<5110, "᏶᏷">>,
    <<5118, "᏾᏿">>,
    <<5760, " ">>,
    <<5789, "᚝᚞᚟">>,
    <<5881, "᛹᛺᛻᛼᛽᛾᛿">>,
    <<6110, "៞៟">>,
    <<6122, "៪៫៬៭៮៯">>,
    <<6138, "៺៻៼៽៾៿">>,
    <<6315, "᢫᢬᢭᢮᢯">>,
    <<6390, "᣶᣷᣸᣹᣺᣻᣼᣽᣾᣿">>,
    <<6572, "᦬᦭᦮᦯">>,
    <<6602, "᧊᧋᧌᧍᧎᧏">>,
    <<6619, "᧛᧜᧝">>,
    <<6794, "᪊᪋᪌᪍᪎᪏">>,
    <<6810, "᪚᪛᪜᪝᪞᪟">>,
    <<6830, "᪮᪯">>,
    <<6863, "᫏᫐᫑᫒᫓᫔᫕᫖᫗᫘᫙᫚᫛᫜᫝᫞᫟᫠᫡᫢᫣᫤᫥᫦᫧᫨᫩᫪᫫᫬᫭᫮᫯᫰᫱᫲᫳᫴᫵᫶᫷᫸᫹᫺᫻᫼᫽᫾">>,
    <<6911, "᫿">>,
    <<7156, "᯴᯵᯶᯷᯸᯹᯺᯻">>,
    <<7305, "Ᲊᲊ᲋᲌᲍᲎᲏">>,
    <<7355, "᲻᲼">>,
    <<7368, "᳈᳉᳊᳋᳌᳍᳎᳏">>,
    <<7419, "᳻᳼᳽᳾᳿">>,
    <<8117, "᾵">>,
    <<8133, "῅">>,
    <<8148, "῔῕">>,
    <<8156, "῜">>,
    <<8176, "῰῱">>,
    <<8181, "῵">>,
    <<8191, "῿">>,
    <<8335, "₏">>,
    <<8349, "₝₞₟">>,
    <<8385, "⃁⃂⃃⃄⃅⃆⃇⃈⃉⃊⃋⃌⃍⃎⃏">>,
    <<8433, "⃱⃲⃳⃴⃵⃶⃷⃸⃹⃺⃻⃼⃽⃾⃿">>,
    <<8588, "↌↍↎↏">>,
    <<11158, "⮖">>,
    <<11508, "⳴⳵⳶⳷⳸">>,
    <<11671, "⶗⶘⶙⶚⶛⶜⶝⶞⶟">>,
    <<11687, "⶧">>,
    <<11695, "⶯">>,
    <<11703, "⶷">>,
    <<11711, "⶿">>,
    <<11719, "⷇">>,
    <<11727, "⷏">>,
    <<11735, "⷗">>,
    <<11743, "⷟">>,
    <<11930, "⺚">>,
    <<12020, "⻴⻵⻶⻷⻸⻹⻺⻻⻼⻽⻾⻿">>,
    <<12246, "⿖⿗⿘⿙⿚⿛⿜⿝⿞⿟⿠⿡⿢⿣⿤⿥⿦⿧⿨⿩⿪⿫⿬⿭⿮⿯">>,
    <<12284, "⿼⿽⿾⿿">>,
    <<12439, "゗゘">>,
    <<12687, "㆏">>,
    <<12772, "㇤㇥㇦㇧㇨㇩㇪㇫㇬㇭㇮㇯">>,
    <<42125, "꒍꒎꒏">>,
    <<42183, "꓇꓈꓉꓊꓋꓌꓍꓎꓏">>,
    <<42744, "꛸꛹꛺꛻꛼꛽꛾꛿">>,
    <<42955, "ꟋꟌꟍ꟎꟏">>,
    <<42962, "꟒">>,
    <<42964, "꟔">>,
    <<42970, "ꟚꟛꟜ꟝꟞꟟꟠꟡꟢꟣꟤꟥꟦꟧꟨꟩꟪꟫꟬꟭꟮꟯꟰꟱">>,
    <<43206, "꣆꣇꣈꣉꣊꣋꣌꣍">>,
    <<43226, "꣚꣛꣜꣝꣞꣟">>,
    <<43470, "꧎">>,
    <<43482, "꧚꧛꧜꧝">>,
    <<43519, "꧿">>,
    <<43715, "꫃꫄꫅꫆꫇꫈꫉꫊꫋꫌꫍꫎꫏꫐꫑꫒꫓꫔꫕꫖꫗꫘꫙꫚">>,
    <<43767, "꫷꫸꫹꫺꫻꫼꫽꫾꫿">>,
    <<44014, "꯮꯯">>,
    <<44026, "꯺꯻꯼꯽꯾꯿">>,
    <<55204, "힤힥힦힧힨힩힪힫힬힭힮힯">>,
    <<55239, "퟇퟈퟉퟊">>,
    <<55292, "퟼퟽퟾퟿">>,
    <<57472, "">>,
    <<57520, "">>,
    <<57568, "">>,
    <<57728, "">>,
    <<57776, "">>,
    <<57824, "">>,
    <<57984, "">>,
    <<58032, "">>,
    <<58080, "">>,
    <<58240, "">>,
    <<58288, "">>,
    <<58336, "">>,
    <<58496, "">>,
    <<58544, "">>,
    <<58592, "">>,
    <<58752, "">>,
    <<58800, "">>,
    <<58848, "">>,
    <<59008, "">>,
    <<59056, "">>,
    <<59104, "">>,
    <<59264, "">>,
    <<59312, "">>,
    <<59360, "">>,
    <<59520, "">>,
    <<59568, "">>,
    <<59616, "">>,
    <<59776, "">>,
    <<59824, "">>,
    <<59872, "">>,
    <<60032, "">>,
    <<60080, "">>,
    <<60128, "">>,
    <<60288, "">>,
    <<60336, "">>,
    <<60384, "">>,
    <<60544, "">>,
    <<60592, "">>,
    <<60640, "">>,
    <<60800, "">>,
    <<60848, "">>,
    <<60896, "">>,
    <<61056, "">>,
    <<61104, "">>,
    <<61152, "">>,
    <<61312, "">>,
    <<61360, "">>,
    <<61408, "">>,
    <<61568, "">>,
    <<61616, "">>,
    <<61664, "">>,
    <<61824, "">>,
    <<61872, "">>,
    <<61920, "">>,
    <<62080, "">>,
    <<62128, "">>,
    <<62176, "">>,
    <<62336, "">>,
    <<62384, "">>,
    <<62432, "">>,
    <<62592, "">>,
    <<62640, "">>,
    <<62688, "">>,
    <<62848, "">>,
    <<62896, "">>,
    <<62944, "">>,
    <<63104, "">>,
    <<63152, "">>,
    <<63200, "">>,
    <<63360, "">>,
    <<63408, "">>,
    <<63456, "">>,
    <<63616, "">>,
    <<63664, "">>,
    <<63712, "">>,
    <<64218, "﫚﫛﫜﫝﫞﫟﫠﫡﫢﫣﫤﫥﫦﫧﫨﫩﫪﫫﫬﫭﫮﫯﫰﫱﫲﫳﫴﫵﫶﫷﫸﫹﫺﫻﫼﫽﫾﫿">>,
    <<64451, "﯃﯄﯅﯆﯇﯈﯉﯊﯋﯌﯍﯎﯏﯐﯑﯒">>,
    <<64912, "﶐﶑">>,
    <<64968, "﷈﷉﷊﷋﷌﷍﷎">>,
    <<64976, "﷐﷑﷒﷓﷔﷕﷖﷗﷘﷙﷚﷛﷜﷝﷞﷟﷠﷡﷢﷣﷤﷥﷦﷧﷨﷩﷪﷫﷬﷭﷮﷯">>,
    <<65277, "﻽﻾﻿">>,
    <<65471, "﾿￀￁">>,
    <<65480, "￈￉">>,
    <<65488, "￐￑">>,
    <<65496, "￘￙">>,
    <<65501, "￝￞￟">>,
    <<65511, "￧">>,
    <<65519, "￯￰￱￲￳￴￵￶￷￸￹￺￻">>,
    <<65534, "￾￿">>>>

\* the characters of NonPrintableRuns, as a set
NonPrintable ==
  UNION {{Char(NonPrintableRuns[r][2], i) :
            i \in 1..Len(NonPrintableRuns[r][2])} :
           r \in 1..Len(NonPrintableRuns)}

\* the characters of UpperOther, as a set
UpperOtherChars == {UpperOther[i] : i \in 1..Len(UpperOther)}

\* the decimal digits, as a set
DigitSet == {DigitRows[r][d] : r \in 1..Len(DigitRows), d \in 1..10}

\* str.lower() on one character
LowerChar(c) ==
  IF \E i \in 1..26 : UpperAlpha[i] = c
  THEN LowerAlpha[CHOOSE i \in 1..26 : UpperAlpha[i] = c]
  ELSE IF c \in UpperOtherChars
  THEN LowerOther[CHOOSE i \in 1..Len(UpperOther) : UpperOther[i] = c]
  ELSE c

\* the nearest character of s before position i that is not skipped is cased
RECURSIVE CasedBefore(_, _)
CasedBefore(s, i) ==
  IF i < 1 THEN FALSE
  ELSE IF Char(s, i) \in CaseIgnorable THEN CasedBefore(s, i - 1)
  ELSE Char(s, i) \in CasedChars

\* the nearest character of s after position i that is not skipped is cased
RECURSIVE CasedAfter(_, _)
CasedAfter(s, i) ==
  IF i > Len(s) THEN FALSE
  ELSE IF Char(s, i) \in CaseIgnorable THEN CasedAfter(s, i + 1)
  ELSE Char(s, i) \in CasedChars

\* str.lower() on the character at position i of s: a capital sigma that
\* ends a word becomes the final sigma
LowerAt(s, i) ==
  IF Char(s, i) = "Σ"
  THEN (IF CasedBefore(s, i - 1) /\ ~CasedAfter(s, i + 1)
        THEN "ς" ELSE "σ")
  ELSE LowerChar(Char(s, i))

\* str.lower() of the characters of s from position i on
RECURSIVE LowerFrom(_, _)
LowerFrom(s, i) ==
  IF i > Len(s) THEN ""
  ELSE LowerAt(s, i) \o LowerFrom(s, i + 1)

\* str.lower()
Lower(s) == LowerFrom(s, 1)

\* the Python test `k in s` for two texts
Contains(s, k) ==
  \E i \in 1..(Len(s) - Len(k) + 1) : SubSeq(s, i, i + Len(k) - 1) = k

IsSpaceChar(c) == c \in SpaceChars

\* str.lstrip() / str.rstrip() / str.strip()
RECURSIVE LStrip(_)
LStrip(s) ==
  IF Len(s) > 0 /\ IsSpaceChar(Char(s, 1))
  THEN LStrip(SubSeq(s, 2, Len(s)))
  ELSE s

RECURSIVE RStrip(_)
RStrip(s) ==
  IF Len(s) > 0 /\ IsSpaceChar(Char(s, Len(s)))
  THEN RStrip(SubSeq(s, 1, Len(s) - 1))
  ELSE s

Strip(s) == RStrip(LStrip(s))

\* sep.join(parts)
RECURSIVE Join(_, _)
Join(sep, parts) ==
  IF Len(parts) = 0 THEN ""
  ELSE IF Len(parts) = 1 THEN parts[1]
  ELSE parts[1] \o sep \o Join(sep, Tail(parts))

(***************************************************************************)
(* Query router (lines 32-33).                                             *)
(***************************************************************************)
space_keywords ==
  <<"nasa", "space", "astronomy", "planet", "cosmos", "asteroid", "galaxy">>

IsSpaceQuery(query) ==
  \E n \in 1..Len(space_keywords) :
    \E lowered \in {Lower(query)} : Contains(lowered, space_keywords[n])

(***************************************************************************)
(* Timestamp parsing: strptime(s, "%Y-%m-%dT%H:%M:%SZ") (lines 122, 136). *)
(* The format compiles to a case-insensitive regular expression that must  *)
(* match the whole text: a 4-digit year, then 1-2 digit fields separated   *)
(* by the literal characters. \d matches the decimal digits of every       *)
(* script; a digit the pattern names (as in [0-5]) is one of 0-9.          *)
(***************************************************************************)
DigitChars == <<"0", "1", "2", "3", "4", "5", "6", "7", "8", "9">>

\* \d
IsDigit(c) == c \in DigitSet

\* int(c) for a digit c: its place in the row of its script
DigitVal(c) ==
  IF \E d \in 1..10 : DigitChars[d] = c
  THEN (CHOOSE d \in 1..10 : DigitChars[d] = c) - 1
  ELSE (CHOOSE d \in 1..10 :
          \E r \in 1..Len(DigitRows) : DigitRows[r][d] = c) - 1

\* the character class [lo-hi] of the pattern, lo and hi in 0..9
AsciiDigit(c, lo, hi) == \E d \in lo..hi : DigitChars[d + 1] = c

AllDigits(s) == \A i \in 1..Len(s) : IsDigit(Char(s, i))

\* int(s) for a text of digits
RECURSIVE Num(_)
Num(s) ==
  IF Len(s) = 0 THEN 0
  ELSE CHOOSE n \in {10 * Num(front) + DigitVal(Char(s, Len(s))) :
                      front \in {SubSeq(s, 1, Len(s) - 1)}} : TRUE

\* two characters equal up to case (the pattern is compiled with IGNORECASE)
SameLetter(a, b) == a = b \/ LowerChar(a) = LowerChar(b)

\* In the definitions below, CHOOSE v \in {F(x) : x \in {e}} : TRUE is F(e)
\* with e evaluated once.
\* position of the first occurrence of the literal sep (either case) in s at
\* or after position i; 0 when there is none
RECURSIVE FindSep(_, _, _)
FindSep(s, sep, i) ==
  IF i > Len(s) THEN 0
  ELSE IF SameLetter(Char(s, i), sep) THEN i
  ELSE CHOOSE p \in {FindSep(s, sep, j) : j \in {i + 1}} : TRUE

\* the alternative  [lo-hi][lo2-hi2]  of a directive
TwoAscii(f, lo, hi, lo2, hi2) ==
  /\ Len(f) = 2
  /\ AsciiDigit(Char(f, 1), lo, hi)
  /\ AsciiDigit(Char(f, 2), lo2, hi2)

\* the alternative  [lo-hi]\d  of a directive
AsciiThenDigit(f, lo, hi) ==
  /\ Len(f) = 2
  /\ AsciiDigit(Char(f, 1), lo, hi)
  /\ IsDigit(Char(f, 2))

\* %m: 1[0-2]|0[1-9]|[1-9]
MonthField(f) ==
  \/ TwoAscii(f, 1, 1, 0, 2)
  \/ TwoAscii(f, 0, 0, 1, 9)
  \/ Len(f) = 1 /\ AsciiDigit(Char(f, 1), 1, 9)

\* %d: 3[01]|[12]\d|0[1-9]|[1-9]| [1-9]
DayField(f) ==
  \/ TwoAscii(f, 3, 3, 0, 1)
  \/ AsciiThenDigit(f, 1, 2)
  \/ TwoAscii(f, 0, 0, 1, 9)
  \/ Len(f) = 1 /\ AsciiDigit(Char(f, 1), 1, 9)
  \/ Len(f) = 2 /\ Char(f, 1) = " " /\ AsciiDigit(Char(f, 2), 1, 9)

\* %H: 2[0-3]|[0-1]\d|\d
HourField(f) ==
  \/ TwoAscii(f, 2, 2, 0, 3)
  \/ AsciiThenDigit(f, 0, 1)
  \/ Len(f) = 1 /\ IsDigit(Char(f, 1))

\* %M: [0-5]\d|\d
MinuteField(f) ==
  \/ AsciiThenDigit(f, 0, 5)
  \/ Len(f) = 1 /\ IsDigit(Char(f, 1))

\* %S: 6[0-1]|[0-5]\d|\d
SecondField(f) ==
  \/ TwoAscii(f, 6, 6, 0, 1)
  \/ AsciiThenDigit(f, 0, 5)
  \/ Len(f) = 1 /\ IsDigit(Char(f, 1))

DayValue(f) == IF Char(f, 1) = " " THEN DigitVal(Char(f, 2)) ELSE Num(f)

IsLeap(y) == (y % 4 = 0) /\ ((y % 100 # 0) \/ (y % 400 = 0))

DaysInMonth(y, m) ==
  IF m = 2 THEN (IF IsLeap(y) THEN 29 ELSE 28)
  ELSE IF m \in {4, 6, 9, 11} THEN 30 ELSE 31

ParseError == [ok |-> FALSE]

\* the literal characters of "%Y-%m-%dT%H:%M:%SZ", in order
FormatLiterals == <<"-", "-", "T", ":", ":", "Z">>

\* positions in s of the literals seps, each searched after the previous one,
\* starting at position i; the list ends with 0 where a literal is missing
RECURSIVE Cuts(_, _, _)
RECURSIVE CutsFrom(_, _, _)
Cuts(s, seps, i) ==
  IF seps = <<>> THEN <<>>
  ELSE CHOOSE c \in {CutsFrom(s, seps, p) : p \in {FindSep(s, Head(seps), i)}} :
         TRUE

CutsFrom(s, seps, p) ==
  IF p = 0 THEN <<0>> ELSE <<p>> \o Cuts(s, Tail(seps), p + 1)

\* the six texts between the literals at positions c
FormatFields(s, c) ==
  <<SubSeq(s, 1, c[1] - 1), SubSeq(s, c[1] + 1, c[2] - 1),
    SubSeq(s, c[2] + 1, c[3] - 1), SubSeq(s, c[3] + 1, c[4] - 1),
    SubSeq(s, c[4] + 1, c[5] - 1), SubSeq(s, c[5] + 1, c[6] - 1)>>

\* %Y is exactly four digits; each other directive has its own alternatives
FieldsValid(f) ==
  /\ Len(f[1]) = 4
  /\ AllDigits(f[1])
  /\ MonthField(f[2])
  /\ DayField(f[3])
  /\ HourField(f[4])
  /\ MinuteField(f[5])
  /\ SecondField(f[6])

FieldValues(f) ==
  [ok |-> TRUE, year |-> Num(f[1]), month |-> Num(f[2]),
   day |-> DayValue(f[3]), hour |-> Num(f[4]), minute |-> Num(f[5]),
   second |-> Num(f[6])]

ParsedFields(f) == IF FieldsValid(f) THEN FieldValues(f) ELSE ParseError

\* the text matches as a whole when all six literals are found and the last
\* one ends the text
Matched(s, c) ==
  IF Len(c) = 6 /\ c[6] = Len(s)
  THEN CHOOSE r \in {ParsedFields(f) : f \in {FormatFields(s, c)}} : TRUE
  ELSE ParseError

\* the fields matched by the compiled format, or ParseError when the text does
\* not match it as a whole
MatchFormat(s) ==
  CHOOSE r \in {Matched(s, c) : c \in {Cuts(s, FormatLiterals, 1)}} : TRUE

\* the matched fields name a real calendar day of a year >= 1
CalendarDay(r) ==
  IF r.ok
  THEN (IF r.year >= 1 /\ r.day <= DaysInMonth(r.year, r.month)
        THEN r ELSE ParseError)
  ELSE ParseError

\* time.strptime: ValueError (ParseError) unless the text matches and names a
\* real calendar day
TimeStrptime(s) ==
  CHOOSE d \in {CalendarDay(r) : r \in {MatchFormat(s)}} : TRUE

\* a second of 60 or 61 is not a datetime second
DatetimeSecond(r) ==
  IF r.ok THEN (IF r.second <= 59 THEN r ELSE ParseError) ELSE ParseError

\* datetime.datetime.strptime: as time.strptime, and a second of 60 or 61 is
\* rejected
DatetimeStrptime(s) ==
  CHOOSE d \in {DatetimeSecond(r) : r \in {TimeStrptime(s)}} : TRUE

\* time.gmtime(0)
EpochOrigin ==
  [ok |-> TRUE, year |-> 1970, month |-> 1, day |-> 1, hour |-> 0,
   minute |-> 0, second |-> 0]

(***************************************************************************)
(* Python values.                                                          *)
(***************************************************************************)
\* A value decoded from JSON carries its Python type: None, a str, a list of
\* values, or a dict, whose items are the pairs <<key, value>> in the order
\* of the document.
None == [type |-> "NoneType"]
Str(s) == [type |-> "str", value |-> s]
List(values) == [type |-> "list", value |-> values]
Dict(items) == [type |-> "dict", value |-> items]

\* None where a response or a result may stand (no response yet, nothing
\* returned)
Null == [py |-> "None"]

\* the run of NonPrintableRuns that holds c, and the place of c in a run
RunOf(c) ==
  CHOOSE r \in 1..Len(NonPrintableRuns) :
    \E i \in 1..Len(NonPrintableRuns[r][2]) :
      Char(NonPrintableRuns[r][2], i) = c

PlaceIn(run, c) == CHOOSE i \in 1..Len(run) : Char(run, i) = c

\* ord(c) for a character of NonPrintable
Ord(c) ==
  NonPrintableRuns[RunOf(c)][1] + PlaceIn(NonPrintableRuns[RunOf(c)][2], c) - 1

HexDigits ==
  <<"0", "1", "2", "3", "4", "5", "6", "7", "8", "9",
    "a", "b", "c", "d", "e", "f">>

\* n in hexadecimal, in width digits
RECURSIVE Hex(_, _)
Hex(n, width) ==
  IF width = 0 THEN ""
  ELSE Hex(n \div 16, width - 1) \o HexDigits[(n % 16) + 1]

\* how repr() writes one character of a text between the quotes
ReprChar(c, quote) ==
  IF c = quote \/ c = "\\" THEN "\\" \o c
  ELSE IF c = "\t" THEN "\\t"
  ELSE IF c = "\n" THEN "\\n"
  ELSE IF c = "\r" THEN "\\r"
  ELSE IF c \in NonPrintable
  THEN (IF Ord(c) < 256 THEN "\\x" \o Hex(Ord(c), 2)
        ELSE "\\u" \o Hex(Ord(c), 4))
  ELSE c

RECURSIVE ReprChars(_, _, _)
ReprChars(s, i, quote) ==
  IF i > Len(s) THEN ""
  ELSE ReprChar(Char(s, i), quote) \o ReprChars(s, i + 1, quote)

\* the quote of repr(s): the apostrophe, unless s holds one and no double
\* quote
ReprQuote(s) == IF Contains(s, "'") /\ ~Contains(s, "\"") THEN "\"" ELSE "'"

\* repr(s) of a text
ReprStr(s) == ReprQuote(s) \o ReprChars(s, 1, ReprQuote(s)) \o ReprQuote(s)

\* repr(v) of a decoded value
RECURSIVE Repr(_)
Repr(v) ==
  IF v.type = "NoneType" THEN "None"
  ELSE IF v.type = "str" THEN ReprStr(v.value)
  ELSE IF v.type = "list"
  THEN "[" \o Join(", ", [i \in 1..Len(v.value) |-> Repr(v.value[i])]) \o "]"
  ELSE "{" \o Join(", ", [i \in 1..Len(v.value) |->
                            ReprStr(v.value[i][1]) \o ": "
                              \o Repr(v.value[i][2])]) \o "}"

\* how an f-string renders a value: str(v)
Fmt(v) == IF v.type = "str" THEN v.value ELSE Repr(v)

\* key in d, d[key], d.get(key, default) and d.get(key) for a decoded dict d
HasKey(d, key) == \E i \in 1..Len(d.value) : d.value[i][1] = key

Item(d, key) ==
  d.value[CHOOSE i \in 1..Len(d.value) : d.value[i][1] = key][2]

DictGet(d, key, default) == IF HasKey(d, key) THEN Item(d, key) ELSE default

Get(d, key) == DictGet(d, key, None)

\* the test  key in v  where it does not raise (it raises for None): a key
\* of a dict, an element of a list, a part of a text
In(key, v) ==
  IF v.type = "dict" THEN HasKey(v, key)
  ELSE IF v.type = "list" THEN \E i \in 1..Len(v.value) : v.value[i] = Str(key)
  ELSE IF v.type = "str" THEN Contains(v.value, key)
  ELSE FALSE

\* the values a for loop takes from v where it does not raise (it raises
\* for None): the elements of a list, the keys of a dict, the characters of
\* a text
Iter(v) ==
  IF v.type = "list" THEN v.value
  ELSE IF v.type = "dict" THEN [i \in 1..Len(v.value) |-> Str(v.value[i][1])]
  ELSE IF v.type = "str" THEN [i \in 1..Len(v.value) |-> Str(Char(v.value, i))]
  ELSE <<>>

\* entry.get(key, default) on an entry of the parsed feed
GetOr(d, key, default) == IF key \in DOMAIN d THEN d[key] ELSE default

\* the empty dict, and d[key] = value
EmptyDict == <<>>
DictSet(d, key, value) ==
  [k \in (DOMAIN d) \cup {key} |-> IF k = key THEN value ELSE d[k]]

(***************************************************************************)
(* The HTTP sources.  A request yields a response with a status code and a *)
(* body, or fails in transport (requests.get raises).  A JSON body is the  *)
(* value it decodes to, or is marked undecodable (response.json() raises). *)
(***************************************************************************)
ConnectionError == [exception |-> "ConnectionError"]
Response(status, body) == [status_code |-> status, body |-> body]
InvalidJson == [json |-> FALSE]
Json(value) == [json |-> TRUE, value |-> value]

\* line 60 raises on the value of items: None is not iterable, and
\* an element that is not a dict has no get
NotItems(top_results) ==
  IF top_results.type = "NoneType" THEN TRUE
  ELSE \E i \in 1..Len(Iter(top_results)) : Iter(top_results)[i].type # "dict"

\* lines 58-60 raise on the decoded body: None has no test  in ; a list or a
\* text that holds "items" is not indexed by it; the value of items is not
\* a collection of dicts
GoogleTypeError(search_results) ==
  IF search_results.type = "NoneType" THEN TRUE
  ELSE IF ~In("items", search_results) THEN FALSE
  ELSE IF search_results.type # "dict" THEN TRUE
  ELSE NotItems(Item(search_results, "items"))

\* line 84 raises on the decoded body: only a dict has get
NasaTypeError(data) == data.type # "dict"

\* the response makes summary adapter a raise: requests.get raises, or the
\* status is 200 and response.json() raises or the decoded body is not of the
\* type the adapter takes
RaisesInSummary(a, r) ==
  IF r = ConnectionError THEN TRUE
  ELSE IF r = Null THEN FALSE
  ELSE IF r.status_code # 200 THEN FALSE
  ELSE IF ~r.body.json THEN TRUE
  ELSE IF a = "nasa" THEN NasaTypeError(r.body.value)
  ELSE GoogleTypeError(r.body.value)

item1 ==
  Dict(<<<<"title", Str("T1")>>, <<"link", Str("L1")>>,
         <<"snippet", Str("S1")>>>>)
item2 == Dict(<<<<"title", Str("T2")>>, <<"snippet", None>>>>)

GoogleResponses ==
  { Response(500, InvalidJson),
    Response(404, Json(Dict(<<>>))),
    Response(200, InvalidJson),
    Response(200, Json(Dict(<<>>))),
    Response(200, Json(Dict(<<<<"items", List(<<item1, item2>>)>>>>))),
    Response(200, Json(Dict(<<<<"items", List(<<Str("x")>>)>>>>))),
    ConnectionError }

NasaResponses ==
  { Response(500, InvalidJson),
    Response(404, Json(Dict(<<>>))),
    Response(200, InvalidJson),
    Response(200, Json(Dict(<<<<"title", Str("T")>>, <<"explanation", None>>>>))),
    Response(200, Json(List(<<Str("a")>>))),
    ConnectionError }

(***************************************************************************)
(* _fetch_from_google: text of a decoded success body (lines 58-68).       *)
(***************************************************************************)
GoogleItemText(res) ==
  "Title: " \o Fmt(Get(res, "title")) \o "\nLink: " \o Fmt(Get(res, "link"))
    \o "\nSnippet: " \o Fmt(Get(res, "snippet")) \o "\n"

\* line 60
GoogleUrls(top_results) ==
  [i \in 1..Len(Iter(top_results)) |-> Get(Iter(top_results)[i], "link")]

\* lines 62-65
GoogleResults(top_results) ==
  Join("\n", [i \in 1..Len(Iter(top_results)) |->
                GoogleItemText(Iter(top_results)[i])])

GoogleNoResults == "No web results found."

GoogleSentinel(n) ==
  "Error: Google Search API request failed after " \o ToString(n) \o " attempts."

(***************************************************************************)
(* _fetch_from_nasa: text of a decoded success body (lines 83-87).         *)
(***************************************************************************)
NasaResult(d) ==
  "NASA APOD\nTitle: "
    \o Fmt(DictGet(d, "title", Str("No title provided.")))
    \o "\nExplanation: "
    \o Fmt(DictGet(d, "explanation", Str("No explanation available.")))
    \o "\n"

NasaSentinel(n) ==
  "Error: NASA API request failed after " \o ToString(n) \o " attempts."

(***************************************************************************)
(* _fetch_from_arxiv: entries of the parsed feed to papers (lines 118-139).*)
(***************************************************************************)
\* lines 123 and 127: the year of a parsed date, 0 when parsing failed
YearOrZero(d) == IF d.ok THEN d.year ELSE 0

\* PublishedYear reading the four leading digits without validating the rest
PublishedYearUnchecked(entry) ==
  LET p == GetOr(entry, "published", "")
  IN  IF Len(p) >= 4 /\ AllDigits(SubSeq(p, 1, 4))
      THEN Num(SubSeq(p, 1, 4)) ELSE 0

\* lines 120-127: the year of an entry, 0 when its timestamp does not parse
PublishedYear(entry) ==
  CHOOSE y \in {YearOrZero(d) :
                  d \in {DatetimeStrptime(GetOr(entry, "published", ""))}} :
    TRUE

StructTime(r) == <<r.year, r.month, r.day, r.hour, r.minute, r.second>>

\* lines 129-137
Pointer(entry) ==
  LET published_str == GetOr(entry, "published", "")
  IN  [title       |-> Strip(GetOr(entry, "title", "No Title")),
       summary     |-> Strip(GetOr(entry, "summary", "No summary available.")),
       year        |-> PublishedYear(entry),
       published   |-> published_str,
       link        |-> GetOr(entry, "link", ""),
       parsed_date |-> IF DatetimeStrptime(published_str).ok
                       THEN CHOOSE t \in
                              {StructTime(r) :
                                 r \in {TimeStrptime(published_str)}} : TRUE
                       ELSE StructTime(EpochOrigin)]

\* Retained keeping the entries whose timestamp did not parse
RetainedOrUndated(entry, threshold) ==
  PublishedYear(entry) >= threshold \/ PublishedYear(entry) = 0

\* Retained with a strict comparison
RetainedStrict(entry, threshold) == PublishedYear(entry) > threshold

\* line 128
Retained(entry, threshold) == PublishedYear(entry) >= threshold

\* the list with paper p placed before the first paper of an earlier year
RECURSIVE InsertByYear(_, _)
InsertByYear(p, list) ==
  IF Len(list) = 0 THEN <<p>>
  ELSE IF p.year >= Head(list).year THEN <<p>> \o list
  ELSE <<Head(list)>> \o InsertByYear(p, Tail(list))

\* ParseEntries keeping the papers sorted by year, newest first
RECURSIVE ParseEntriesSorted(_, _)
ParseEntriesSorted(entries, threshold) ==
  IF Len(entries) = 0 THEN <<>>
  ELSE LET rest == ParseEntriesSorted(Tail(entries), threshold)
       IN  IF Retained(Head(entries), threshold)
           THEN InsertByYear(Pointer(Head(entries)), rest)
           ELSE rest

\* lines 118-139: the loop over feed.entries
RECURSIVE ParseEntries(_, _)
ParseEntries(entries, threshold) ==
  IF Len(entries) = 0 THEN <<>>
  ELSE LET rest == ParseEntries(Tail(entries), threshold)
       IN  IF Retained(Head(entries), threshold)
           THEN <<Pointer(Head(entries))>> \o rest
           ELSE rest

\* line 97
ThresholdYear(current_year) == current_year - 5

\* a timestamp of the feed, in its documented form
Stamp(y) == ToString(y) \o "-01-15T10:30:00Z"

Entry(y) ==
  [title     |-> " Paper " \o ToString(y) \o "\n",
   summary   |-> "Abstract " \o ToString(y),
   published |-> Stamp(y),
   link      |-> "http://arxiv.org/abs/" \o ToString(y)]

\* entries whose published field does not parse
BadEntry == [title |-> "Undated", published |-> "2025-13-01T00:00:00Z"]
NoDateEntry == [title |-> "No date", link |-> "http://arxiv.org/abs/x"]

SampleFeed ==
  <<Entry(BaseYear), BadEntry, Entry(BaseYear - 5), Entry(BaseYear - 6)>>

FeedBodies == {<<>>, SampleFeed}

ArxivResponses ==
  {Response(500, <<>>), Response(404, <<>>), ConnectionError}
    \cup {Response(200, b) : b \in FeedBodies}

\* the years the wall clock shows during a run, and their thresholds
Years == BaseYear..(BaseYear + MaxTicks)
Thresholds == {ThresholdYear(y) : y \in Years}

(***************************************************************************)
(* State.                                                                  *)
(***************************************************************************)
VARIABLES
  max_retries,     \* self.max_retries (line 15)
  cache,           \* self.cache: dict from query text to composite (line 21)
  memory,          \* the memory sink's stored artifacts: dict key -> value
  now_year,        \* the calendar year of the wall clock
  completed,       \* the first composite returned for each query so far
  attempted,       \* the queries for which an ended call invoked an adapter
  pc,              \* per caller: where its fetch_external_data call stands
  query,           \* per caller: the argument of the call
  attempt,         \* per caller: attempts completed by the running retry loop
  response,        \* per caller: the response being handled (local `response`)
  data,            \* per caller: the summary text (local `data`, line 34/36)
  research_data,   \* per caller: the paper list (local `research_data`)
  current_year,    \* per caller: local `current_year` (line 96)
  threshold_year,  \* per caller: local `threshold_year` (line 97)
  ret,             \* per caller: the value the call returned
  invoked,         \* per caller and adapter: times the call invoked it
  resolved,        \* per caller and adapter: times it returned to the call
  requests,        \* per caller and source: HTTP requests issued by the call
  sleeps,          \* per caller and adapter: time.sleep(1) calls it made
  slept,           \* per caller: the time the call has spent in time.sleep
  stored,          \* per caller: writes of the call to cache and sink keys
  parses,          \* per caller: feed documents the call handed to the parser
  repeat,          \* per caller: a fetch of its query had returned at its start
  feed,            \* feed-only specification: the entries handed to the parser
  feed_year,       \* feed-only specification: the current year
  papers,          \* feed-only specification: the parser's output
  feed_pc          \* feed-only specification: "input", then "parsed"

vars ==
  <<max_retries, cache, memory, now_year, completed, attempted, pc, query,
    attempt, response, data, research_data, current_year, threshold_year,
    ret, invoked, resolved, requests, sleeps, slept, stored, parses, repeat,
    feed, feed_year, papers, feed_pc>>

\* the callers of the one agent instance
Callers == {1}

AllQueries ==
  <<"latest asteroid discovery", "best pizza recipe", "NASA budget",
    "nasa budget">>

Queries == {AllQueries[i] : i \in 1..MaxQueries}

Adapters == {"google", "nasa", "arxiv"}

Zero == [a \in Adapters |-> 0]

NoWrites == [cache |-> 0, external_data |-> 0, external_urls |-> 0]

Bump(counts, key) == [counts EXCEPT ![key] = @ + 1]

\* MemoryManager.store_data(key, value)
store_data(mem, key, value) == DictSet(mem, key, value)

\* line 40
Composite(summary, advancements) ==
  [summary |-> summary, recent_advancements |-> advancements]

\* the state of an instance just constructed (lines 13-21), no call running,
\* with the callers C
Constructed(C) ==
  /\ cache = EmptyDict
  /\ memory = EmptyDict
  /\ now_year = BaseYear
  /\ completed = EmptyDict
  /\ attempted = {}
  /\ pc = [c \in C |-> "idle"]
  /\ query = [c \in C |-> ""]
  /\ attempt = [c \in C |-> 0]
  /\ response = [c \in C |-> Null]
  /\ data = [c \in C |-> ""]
  /\ research_data = [c \in C |-> <<>>]
  /\ current_year = [c \in C |-> 0]
  /\ threshold_year = [c \in C |-> 0]
  /\ ret = [c \in C |-> Null]
  /\ invoked = [c \in C |-> Zero]
  /\ resolved = [c \in C |-> Zero]
  /\ requests = [c \in C |-> Zero]
  /\ sleeps = [c \in C |-> Zero]
  /\ slept = [c \in C |-> 0]
  /\ stored = [c \in C |-> NoWrites]
  /\ parses = [c \in C |-> 0]
  /\ repeat = [c \in C |-> FALSE]

Fresh == Constructed(Callers)

Init ==
  /\ max_retries \in 0..MaxRetries
  /\ Fresh
  /\ feed = <<>>
  /\ feed_year = BaseYear
  /\ papers = <<>>
  /\ feed_pc = "input"

(***************************************************************************)
(* fetch_external_data (lines 23-44).                                      *)
(***************************************************************************)
\* no call is in progress on the instance (single-threaded use)
Quiescent == \A c \in Callers : pc[c] = "idle"

\* the bookkeeping of a call that begins
Begin(c, q) ==
  /\ query' = [query EXCEPT ![c] = q]
  /\ repeat' = [repeat EXCEPT ![c] = q \in DOMAIN completed]
  /\ attempt' = [attempt EXCEPT ![c] = 0]

\* the call returns result to its caller
Finish(c, q, result) ==
  /\ ret' = [ret EXCEPT ![c] = result]
  /\ completed' = IF q \in DOMAIN completed THEN completed
                  ELSE DictSet(completed, q, result)
  /\ pc' = [pc EXCEPT ![c] = "returned"]

\* FetchHit without line 30: the cached value is stored but not returned
FetchHitNoReturn(c, q) ==
  /\ Quiescent
  /\ q \in DOMAIN cache
  /\ Begin(c, q)
  /\ memory' = store_data(memory, "external_data", cache[q])
  /\ stored' = [stored EXCEPT ![c] = Bump(@, "external_data")]
  /\ Finish(c, q, Null)
  /\ UNCHANGED <<max_retries, cache, now_year, attempted, response, data,
                 research_data, current_year, threshold_year, invoked,
                 resolved, requests, sleeps, slept, parses, feed, feed_year,
                 papers, feed_pc>>

\* lines 26-30: the query is cached
Hit(c, q) ==
  /\ pc[c] = "idle"
  /\ q \in DOMAIN cache
  /\ Begin(c, q)
  /\ memory' = store_data(memory, "external_data", cache[q])
  /\ stored' = [stored EXCEPT ![c] = Bump(@, "external_data")]
  /\ Finish(c, q, cache[q])
  /\ UNCHANGED <<max_retries, cache, now_year, attempted, response, data,
                 research_data, current_year, threshold_year, invoked,
                 resolved, requests, sleeps, slept, parses, feed, feed_year,
                 papers, feed_pc>>

\* a call of single-threaded use that finds its query cached
FetchHit(c, q) == Quiescent /\ Hit(c, q)

\* lines 32-33: the router
Route(q) == IF IsSpaceQuery(q) THEN "nasa" ELSE "google"

\* Route over the query texts of the model, evaluated once
RouteOf[q \in Queries] == Route(q)

SummaryAdapter(q) == RouteOf[q]

\* FetchMiss without the lookup of line 26
FetchMissUnchecked(c, q) ==
  /\ Quiescent
  /\ Begin(c, q)
  /\ pc' = [pc EXCEPT ![c] = SummaryAdapter(q)]
  /\ invoked' = [invoked EXCEPT ![c] = Bump(@, SummaryAdapter(q))]
  /\ UNCHANGED <<max_retries, cache, memory, now_year, completed, attempted,
                 response, data, research_data, current_year, threshold_year,
                 ret, resolved, requests, sleeps, slept, stored, parses, feed,
                 feed_year, papers, feed_pc>>

\* lines 26 and 32-36: a miss enters the summary adapter the router selects
Miss(c, q) ==
  /\ pc[c] = "idle"
  /\ q \notin DOMAIN cache
  /\ Begin(c, q)
  /\ pc' = [pc EXCEPT ![c] = SummaryAdapter(q)]
  /\ invoked' = [invoked EXCEPT ![c] = Bump(@, SummaryAdapter(q))]
  /\ UNCHANGED <<max_retries, cache, memory, now_year, completed, attempted,
                 response, data, research_data, current_year, threshold_year,
                 ret, resolved, requests, sleeps, slept, stored, parses, feed,
                 feed_year, papers, feed_pc>>

\* a call of single-threaded use that does not find its query cached
FetchMiss(c, q) == Quiescent /\ Miss(c, q)

\* an exception leaves the adapter and fetch_external_data (there is no
\* handler on the way): the call ends without a value
Raise(c) ==
  /\ pc' = [pc EXCEPT ![c] = "raised"]
  /\ UNCHANGED <<max_retries, cache, memory, now_year, completed, attempted,
                 query, attempt, response, data, research_data, current_year,
                 threshold_year, ret, invoked, resolved, requests, sleeps,
                 slept, stored, parses, repeat, feed, feed_year, papers,
                 feed_pc>>

\* lines 34-37: the summary adapter returns text to line 34/36, and line 37
\* enters the research-feed adapter, which reads the clock (lines 96-97)
SummaryReturns(c, text) ==
  /\ data' = [data EXCEPT ![c] = text]
  /\ resolved' = [resolved EXCEPT ![c] = Bump(@, SummaryAdapter(query[c]))]
  /\ invoked' = [invoked EXCEPT ![c] = Bump(@, "arxiv")]
  /\ current_year' = [current_year EXCEPT ![c] = now_year]
  /\ threshold_year' = [threshold_year EXCEPT ![c] = ThresholdYear(now_year)]
  /\ attempt' = [attempt EXCEPT ![c] = 0]
  /\ response' = [response EXCEPT ![c] = Null]
  /\ pc' = [pc EXCEPT ![c] = "arxiv"]

\* the argument of time.sleep (lines 71, 90, 112)
RetryDelay == 1

\* FailedAttempt with a delay that grows with the attempt number
FailedAttemptBackoff(c, loop) ==
  /\ attempt' = [attempt EXCEPT ![c] = @ + 1]
  /\ sleeps' = [sleeps EXCEPT ![c] = Bump(@, loop)]
  /\ slept' = [slept EXCEPT ![c] = @ + RetryDelay * (attempt[c] + 1)]
  /\ pc' = [pc EXCEPT ![c] = loop]

\* the else branch of a retry loop (lines 69-71, 88-90, 110-112)
FailedAttempt(c, loop) ==
  /\ attempt' = [attempt EXCEPT ![c] = @ + 1]
  /\ sleeps' = [sleeps EXCEPT ![c] = Bump(@, loop)]
  /\ slept' = [slept EXCEPT ![c] = @ + RetryDelay]
  /\ pc' = [pc EXCEPT ![c] = loop]

\* where a call stands while the response of a source is handled
Awaiting ==
  [google |-> "google_resp", nasa |-> "nasa_resp", arxiv |-> "arxiv_resp"]

\* a requests.get of a retry loop (lines 55, 81, 107)
SendRequest(c, source, r) ==
  /\ response' = [response EXCEPT ![c] = r]
  /\ requests' = [requests EXCEPT ![c] = Bump(@, source)]
  /\ pc' = [pc EXCEPT ![c] = Awaiting[source]]
  /\ UNCHANGED <<max_retries, cache, memory, now_year, completed, attempted,
                 query, attempt, data, research_data, current_year,
                 threshold_year, ret, invoked, resolved, sleeps, slept,
                 stored, parses, repeat, feed, feed_year, papers, feed_pc>>

(***************************************************************************)
(* _fetch_from_google (lines 46-72).                                       *)
(***************************************************************************)
\* GoogleRequest with the loop bound off by one
GoogleRequestOffByOne(c) ==
  /\ pc[c] = "google"
  /\ attempt[c] <= max_retries
  /\ \E r \in GoogleResponses : SendRequest(c, "google", r)

\* lines 54-55
GoogleRequest(c) ==
  /\ pc[c] = "google"
  /\ attempt[c] < max_retries
  /\ \E r \in GoogleResponses : SendRequest(c, "google", r)

\* GoogleRaise with the exception caught and the attempt counted as failed
GoogleRaiseRetried(c) ==
  /\ pc[c] = "google_resp"
  /\ RaisesInSummary("google", response[c])
  /\ FailedAttempt(c, "google")
  /\ UNCHANGED <<max_retries, cache, memory, now_year, completed, attempted,
                 query, response, data, research_data, current_year,
                 threshold_year, ret, invoked, resolved, requests, stored,
                 parses, repeat, feed, feed_year, papers, feed_pc>>

\* requests.get, response.json() or the reading of the decoded body raises
\* (lines 55, 57, 58-60)
GoogleRaise(c) ==
  /\ pc[c] = "google_resp"
  /\ RaisesInSummary("google", response[c])
  /\ Raise(c)

\* lines 58-66
GoogleItems(c) ==
  /\ pc[c] = "google_resp"
  /\ ~RaisesInSummary("google", response[c])
  /\ response[c].status_code = 200
  /\ In("items", response[c].body.value)
  /\ LET top_results == Item(response[c].body.value, "items")
     IN  /\ memory' =
              store_data(memory, "external_urls", GoogleUrls(top_results))
         /\ SummaryReturns(c, GoogleResults(top_results))
  /\ stored' = [stored EXCEPT ![c] = Bump(@, "external_urls")]
  /\ UNCHANGED <<max_retries, cache, now_year, completed, attempted, query,
                 research_data, ret, requests, sleeps, slept, parses, repeat,
                 feed, feed_year, papers, feed_pc>>

\* GoogleNoItems caching the summary as soon as it is known
GoogleNoItemsCachesSummary(c) ==
  /\ pc[c] = "google_resp"
  /\ ~RaisesInSummary("google", response[c])
  /\ response[c].status_code = 200
  /\ ~In("items", response[c].body.value)
  /\ SummaryReturns(c, GoogleNoResults)
  /\ cache' = DictSet(cache, query[c], Composite(GoogleNoResults, <<>>))
  /\ UNCHANGED <<max_retries, memory, now_year, completed, attempted, query,
                 research_data, ret, requests, sleeps, slept, stored, parses,
                 repeat, feed, feed_year, papers, feed_pc>>

\* GoogleNoItems storing an empty list of links
GoogleNoItemsClearsUrls(c) ==
  /\ pc[c] = "google_resp"
  /\ ~RaisesInSummary("google", response[c])
  /\ response[c].status_code = 200
  /\ ~In("items", response[c].body.value)
  /\ memory' = store_data(memory, "external_urls", <<>>)
  /\ SummaryReturns(c, GoogleNoResults)
  /\ UNCHANGED <<max_retries, cache, now_year, completed, attempted, query,
                 research_data, ret, requests, sleeps, slept, stored, parses,
                 repeat, feed, feed_year, papers, feed_pc>>

\* lines 67-68
GoogleNoItems(c) ==
  /\ pc[c] = "google_resp"
  /\ ~RaisesInSummary("google", response[c])
  /\ response[c].status_code = 200
  /\ ~In("items", response[c].body.value)
  /\ SummaryReturns(c, GoogleNoResults)
  /\ UNCHANGED <<max_retries, cache, memory, now_year, completed, attempted,
                 query, research_data, ret, requests, sleeps, slept, stored,
                 parses, repeat, feed, feed_year, papers, feed_pc>>

\* lines 69-71
GoogleFailure(c) ==
  /\ pc[c] = "google_resp"
  /\ ~RaisesInSummary("google", response[c])
  /\ response[c].status_code # 200
  /\ FailedAttempt(c, "google")
  /\ UNCHANGED <<max_retries, cache, memory, now_year, completed, attempted,
                 query, response, data, research_data, current_year,
                 threshold_year, ret, invoked, resolved, requests, stored,
                 parses, repeat, feed, feed_year, papers, feed_pc>>

\* line 72
GoogleExhausted(c) ==
  /\ pc[c] = "google"
  /\ attempt[c] >= max_retries
  /\ SummaryReturns(c, GoogleSentinel(max_retries))
  /\ UNCHANGED <<max_retries, cache, memory, now_year, completed, attempted,
                 query, research_data, ret, requests, sleeps, slept, stored,
                 parses, repeat, feed, feed_year, papers, feed_pc>>

(***************************************************************************)
(* _fetch_from_nasa (lines 74-91).                                         *)
(***************************************************************************)
\* lines 80-81
NasaRequest(c) ==
  /\ pc[c] = "nasa"
  /\ attempt[c] < max_retries
  /\ \E r \in NasaResponses : SendRequest(c, "nasa", r)

\* requests.get, response.json() or data.get raises (lines 81, 83, 84)
NasaRaise(c) ==
  /\ pc[c] = "nasa_resp"
  /\ RaisesInSummary("nasa", response[c])
  /\ Raise(c)

\* lines 83-87
NasaSuccess(c) ==
  /\ pc[c] = "nasa_resp"
  /\ ~RaisesInSummary("nasa", response[c])
  /\ response[c].status_code = 200
  /\ SummaryReturns(c, NasaResult(response[c].body.value))
  /\ UNCHANGED <<max_retries, cache, memory, now_year, completed, attempted,
                 query, research_data, ret, requests, sleeps, slept, stored,
                 parses, repeat, feed, feed_year, papers, feed_pc>>

\* lines 88-90
NasaFailure(c) ==
  /\ pc[c] = "nasa_resp"
  /\ ~RaisesInSummary("nasa", response[c])
  /\ response[c].status_code # 200
  /\ FailedAttempt(c, "nasa")
  /\ UNCHANGED <<max_retries, cache, memory, now_year, completed, attempted,
                 query, response, data, research_data, current_year,
                 threshold_year, ret, invoked, resolved, requests, stored,
                 parses, repeat, feed, feed_year, papers, feed_pc>>

\* line 91
NasaExhausted(c) ==
  /\ pc[c] = "nasa"
  /\ attempt[c] >= max_retries
  /\ SummaryReturns(c, NasaSentinel(max_retries))
  /\ UNCHANGED <<max_retries, cache, memory, now_year, completed, attempted,
                 query, research_data, ret, requests, sleeps, slept, stored,
                 parses, repeat, feed, feed_year, papers, feed_pc>>

(***************************************************************************)
(* _fetch_from_arxiv (lines 93-139).                                       *)
(***************************************************************************)
\* ParseEntries over the feed bodies and thresholds of the model, evaluated
\* once
ParsedFeed[b \in FeedBodies, t \in Thresholds] == ParseEntries(b, t)

\* the adapter returns the list to line 37
FeedReturns(c, list) ==
  /\ research_data' = [research_data EXCEPT ![c] = list]
  /\ resolved' = [resolved EXCEPT ![c] = Bump(@, "arxiv")]
  /\ response' = [response EXCEPT ![c] = Null]
  /\ pc' = [pc EXCEPT ![c] = "combine"]

\* lines 106-107
ArxivRequest(c) ==
  /\ pc[c] = "arxiv"
  /\ attempt[c] < max_retries
  /\ \E r \in ArxivResponses : SendRequest(c, "arxiv", r)

\* requests.get raises (line 107)
ArxivRaise(c) ==
  /\ pc[c] = "arxiv_resp"
  /\ response[c] = ConnectionError
  /\ Raise(c)

\* lines 108-109 and 117-139
ArxivSuccess(c) ==
  /\ pc[c] = "arxiv_resp"
  /\ response[c] # ConnectionError
  /\ response[c].status_code = 200
  /\ parses' = [parses EXCEPT ![c] = @ + 1]
  /\ FeedReturns(c, ParsedFeed[response[c].body, threshold_year[c]])
  /\ UNCHANGED <<max_retries, cache, memory, now_year, completed, attempted,
                 query, attempt, data, current_year, threshold_year, ret,
                 invoked, requests, sleeps, slept, stored, repeat, feed,
                 feed_year, papers, feed_pc>>

\* lines 110-112
ArxivFailure(c) ==
  /\ pc[c] = "arxiv_resp"
  /\ response[c] # ConnectionError
  /\ response[c].status_code # 200
  /\ FailedAttempt(c, "arxiv")
  /\ UNCHANGED <<max_retries, cache, memory, now_year, completed, attempted,
                 query, response, data, research_data, current_year,
                 threshold_year, ret, invoked, resolved, requests, stored,
                 parses, repeat, feed, feed_year, papers, feed_pc>>

\* ArxivExhausted without the else clause of the loop: control falls through
\* to line 117, where `response` is unbound if no request was made
ArxivExhaustedFallsThrough(c) ==
  /\ pc[c] = "arxiv"
  /\ attempt[c] >= max_retries
  /\ IF response[c] = Null
     THEN Raise(c)
     ELSE /\ parses' = [parses EXCEPT ![c] = @ + 1]
          /\ FeedReturns(c, ParsedFeed[response[c].body, threshold_year[c]])
          /\ UNCHANGED <<max_retries, cache, memory, now_year, completed,
                         attempted, query, attempt, data, current_year,
                         threshold_year, ret, invoked, requests, sleeps,
                         slept, stored, repeat, feed, feed_year, papers,
                         feed_pc>>

\* lines 113-115: the loop ended without a break
ArxivExhausted(c) ==
  /\ pc[c] = "arxiv"
  /\ attempt[c] >= max_retries
  /\ FeedReturns(c, <<>>)
  /\ UNCHANGED <<max_retries, cache, memory, now_year, completed, attempted,
                 query, attempt, data, current_year, threshold_year, ret,
                 invoked, requests, sleeps, slept, stored, parses, repeat,
                 feed, feed_year, papers, feed_pc>>

(***************************************************************************)
(* fetch_external_data, lines 39-44: combine, cache, store, return.        *)
(***************************************************************************)
\* the composite the call has built from its locals (line 40)
Result(c) == Composite(data[c], research_data[c])

\* Combine forwarding the composite to the sink where line 41 inserts it
\* into the cache
CombineStoresFirst(c) ==
  /\ pc[c] = "combine"
  /\ memory' = store_data(memory, "external_data", Result(c))
  /\ stored' = [stored EXCEPT ![c] = Bump(@, "external_data")]
  /\ pc' = [pc EXCEPT ![c] = "store"]
  /\ UNCHANGED <<max_retries, cache, now_year, completed, attempted, query,
                 attempt, response, data, research_data, current_year,
                 threshold_year, ret, invoked, resolved, requests, sleeps,
                 slept, parses, repeat, feed, feed_year, papers, feed_pc>>

\* Combine leaving a composite without papers out of the cache
CombineSkipsDegraded(c) ==
  /\ pc[c] = "combine"
  /\ cache' = IF research_data[c] = <<>> THEN cache
              ELSE DictSet(cache, query[c], Result(c))
  /\ stored' = [stored EXCEPT ![c] = Bump(@, "cache")]
  /\ pc' = [pc EXCEPT ![c] = "store"]
  /\ UNCHANGED <<max_retries, memory, now_year, completed, attempted, query,
                 attempt, response, data, research_data, current_year,
                 threshold_year, ret, invoked, resolved, requests, sleeps,
                 slept, parses, repeat, feed, feed_year, papers, feed_pc>>

\* Combine inserting only when the query has no entry (dict.setdefault)
CombineKeepsFirst(c) ==
  /\ pc[c] = "combine"
  /\ cache' = IF query[c] \in DOMAIN cache THEN cache
              ELSE DictSet(cache, query[c], Result(c))
  /\ stored' = [stored EXCEPT ![c] = Bump(@, "cache")]
  /\ pc' = [pc EXCEPT ![c] = "store"]
  /\ UNCHANGED <<max_retries, memory, now_year, completed, attempted, query,
                 attempt, response, data, research_data, current_year,
                 threshold_year, ret, invoked, resolved, requests, sleeps,
                 slept, parses, repeat, feed, feed_year, papers, feed_pc>>

\* lines 39-41: build the composite and insert it into the cache
Combine(c) ==
  /\ pc[c] = "combine"
  /\ cache' = DictSet(cache, query[c], Result(c))
  /\ stored' = [stored EXCEPT ![c] = Bump(@, "cache")]
  /\ pc' = [pc EXCEPT ![c] = "store"]
  /\ UNCHANGED <<max_retries, memory, now_year, completed, attempted, query,
                 attempt, response, data, research_data, current_year,
                 threshold_year, ret, invoked, resolved, requests, sleeps,
                 slept, parses, repeat, feed, feed_year, papers, feed_pc>>

\* Store forwarding the composite without its papers
StoreWithoutPapers(c) ==
  /\ pc[c] = "store"
  /\ memory' = store_data(memory, "external_data", Composite(data[c], <<>>))
  /\ stored' = [stored EXCEPT ![c] = Bump(@, "external_data")]
  /\ Finish(c, query[c], Result(c))
  /\ UNCHANGED <<max_retries, cache, now_year, attempted, query, attempt,
                 response, data, research_data, current_year, threshold_year,
                 invoked, resolved, requests, sleeps, slept, parses, repeat,
                 feed, feed_year, papers, feed_pc>>

\* lines 42-44: forward the composite to the memory sink and return it
Store(c) ==
  /\ pc[c] = "store"
  /\ memory' = store_data(memory, "external_data", Result(c))
  /\ stored' = [stored EXCEPT ![c] = Bump(@, "external_data")]
  /\ Finish(c, query[c], Result(c))
  /\ UNCHANGED <<max_retries, cache, now_year, attempted, query, attempt,
                 response, data, research_data, current_year, threshold_year,
                 invoked, resolved, requests, sleeps, slept, parses, repeat,
                 feed, feed_year, papers, feed_pc>>

\* the caller has the outcome (a value or an exception); the frame is gone
Return(c) ==
  /\ pc[c] \in {"returned", "raised"}
  /\ attempted' = IF invoked[c] = Zero THEN attempted
                  ELSE attempted \cup {query[c]}
  /\ pc' = [pc EXCEPT ![c] = "idle"]
  /\ query' = [query EXCEPT ![c] = ""]
  /\ attempt' = [attempt EXCEPT ![c] = 0]
  /\ response' = [response EXCEPT ![c] = Null]
  /\ data' = [data EXCEPT ![c] = ""]
  /\ research_data' = [research_data EXCEPT ![c] = <<>>]
  /\ current_year' = [current_year EXCEPT ![c] = 0]
  /\ threshold_year' = [threshold_year EXCEPT ![c] = 0]
  /\ ret' = [ret EXCEPT ![c] = Null]
  /\ invoked' = [invoked EXCEPT ![c] = Zero]
  /\ resolved' = [resolved EXCEPT ![c] = Zero]
  /\ requests' = [requests EXCEPT ![c] = Zero]
  /\ sleeps' = [sleeps EXCEPT ![c] = Zero]
  /\ slept' = [slept EXCEPT ![c] = 0]
  /\ stored' = [stored EXCEPT ![c] = NoWrites]
  /\ parses' = [parses EXCEPT ![c] = 0]
  /\ repeat' = [repeat EXCEPT ![c] = FALSE]
  /\ UNCHANGED <<max_retries, cache, memory, now_year, completed, feed,
                 feed_year, papers, feed_pc>>

\* the wall clock crosses a new year
Tick ==
  /\ now_year < BaseYear + MaxTicks
  /\ now_year' = now_year + 1
  /\ UNCHANGED <<max_retries, cache, memory, completed, attempted, pc, query,
                 attempt, response, data, research_data, current_year,
                 threshold_year, ret, invoked, resolved, requests, sleeps,
                 slept, stored, parses, repeat, feed, feed_year, papers,
                 feed_pc>>

Next ==
  \/ \E c \in Callers, q \in Queries : FetchHit(c, q)
  \/ \E c \in Callers, q \in Queries : FetchMiss(c, q)
  \/ \E c \in Callers : GoogleRequest(c)
  \/ \E c \in Callers : GoogleRaise(c)
  \/ \E c \in Callers : GoogleItems(c)
  \/ \E c \in Callers : GoogleNoItems(c)
  \/ \E c \in Callers : GoogleFailure(c)
  \/ \E c \in Callers : GoogleExhausted(c)
  \/ \E c \in Callers : NasaRequest(c)
  \/ \E c \in Callers : NasaRaise(c)
  \/ \E c \in Callers : NasaSuccess(c)
  \/ \E c \in Callers : NasaFailure(c)
  \/ \E c \in Callers : NasaExhausted(c)
  \/ \E c \in Callers : ArxivRequest(c)
  \/ \E c \in Callers : ArxivRaise(c)
  \/ \E c \in Callers : ArxivSuccess(c)
  \/ \E c \in Callers : ArxivFailure(c)
  \/ \E c \in Callers : ArxivExhausted(c)
  \/ \E c \in Callers : Combine(c)
  \/ \E c \in Callers : Store(c)
  \/ \E c \in Callers : Return(c)
  \/ Tick

Spec == Init /\ [][Next]_vars

\* the steps of a call that is under way: the code is synchronous, and a
\* request is answered in the step that sends it
Step(c) ==
  \/ GoogleRequest(c) \/ GoogleRaise(c) \/ GoogleItems(c)
  \/ GoogleNoItems(c) \/ GoogleFailure(c) \/ GoogleExhausted(c)
  \/ NasaRequest(c) \/ NasaRaise(c) \/ NasaSuccess(c) \/ NasaFailure(c)
  \/ NasaExhausted(c)
  \/ ArxivRequest(c) \/ ArxivRaise(c) \/ ArxivSuccess(c)
  \/ ArxivFailure(c) \/ ArxivExhausted(c)
  \/ Combine(c) \/ Store(c)

\* a call that has begun keeps running: its thread is scheduled
FairSpec == Spec /\ WF_vars(\E c \in Callers : Step(c))

(***************************************************************************)
(* The feed parser alone (lines 96-97 and 118-139), over every feed of at  *)
(* most MaxEntries entries drawn from EntrySamples.                        *)
(***************************************************************************)
\* a leap second: time.strptime accepts it, datetime.strptime does not
LeapSecondEntry ==
  [title |-> "Leap", published |-> ToString(BaseYear) \o "-06-30T23:59:60Z"]

EntrySamples ==
  {Entry(BaseYear), Entry(BaseYear - 5), Entry(BaseYear - 6), BadEntry,
   NoDateEntry, LeapSecondEntry}

RECURSIVE SeqsUpTo(_, _)
SeqsUpTo(S, n) ==
  IF n = 0 THEN {<<>>}
  ELSE LET shorter == SeqsUpTo(S, n - 1)
       IN  shorter \cup {Append(f, e) : f \in shorter, e \in S}

Feeds == SeqsUpTo(EntrySamples, MaxEntries)

InitFeed ==
  /\ max_retries = MaxRetries
  /\ Fresh
  /\ feed \in Feeds
  /\ feed_year \in Years
  /\ papers = <<>>
  /\ feed_pc = "input"

\* lines 96-97 and 118-139 applied to the entries of one feed document
ParseFeed ==
  /\ feed_pc = "input"
  /\ feed_pc' = "parsed"
  /\ papers' = ParseEntries(feed, ThresholdYear(feed_year))
  /\ UNCHANGED <<max_retries, cache, memory, now_year, completed, attempted,
                 pc, query, attempt, response, data, research_data,
                 current_year, threshold_year, ret, invoked, resolved,
                 requests, sleeps, slept, stored, parses, repeat, feed,
                 feed_year>>

NextFeed == ParseFeed

SpecFeed == InitFeed /\ [][NextFeed]_vars

(***************************************************************************)
(* Two threads calling fetch_external_data on one instance with no lock:  *)
(* each makes one call, and their steps interleave. The cache lookup of   *)
(* line 26 and the insert of line 41 are separate steps.                   *)
(***************************************************************************)
Threads == {1, 2}

InitRace ==
  /\ max_retries = RaceRetries
  /\ Constructed(Threads)
  /\ feed = <<>>
  /\ feed_year = BaseYear
  /\ papers = <<>>
  /\ feed_pc = "input"

NextRace ==
  \/ \E c \in Threads, q \in Queries : Hit(c, q)
  \/ \E c \in Threads, q \in Queries : Miss(c, q)
  \/ \E c \in Threads : GoogleRequest(c)
  \/ \E c \in Threads : GoogleRaise(c)
  \/ \E c \in Threads : GoogleItems(c)
  \/ \E c \in Threads : GoogleNoItems(c)
  \/ \E c \in Threads : GoogleFailure(c)
  \/ \E c \in Threads : GoogleExhausted(c)
  \/ \E c \in Threads : NasaRequest(c)
  \/ \E c \in Threads : NasaRaise(c)
  \/ \E c \in Threads : NasaSuccess(c)
  \/ \E c \in Threads : NasaFailure(c)
  \/ \E c \in Threads : NasaExhausted(c)
  \/ \E c \in Threads : ArxivRequest(c)
  \/ \E c \in Threads : ArxivRaise(c)
  \/ \E c \in Threads : ArxivSuccess(c)
  \/ \E c \in Threads : ArxivFailure(c)
  \/ \E c \in Threads : ArxivExhausted(c)
  \/ \E c \in Threads : Combine(c)
  \/ \E c \in Threads : Store(c)

SpecRace == InitRace /\ [][NextRace]_vars
(***************************************************************************)
(* Properties.                                                             *)
(***************************************************************************)
SummaryAdapters == {"google", "nasa"}

\* the call of c missed the cache and ran to its return
ReturnedMiss(c) == pc[c] = "returned" /\ stored[c].cache = 1

PaperYears(list) == {list[i].year : i \in DOMAIN list}

\* C1: once a fetch of a query text has returned, every later fetch of the
\* same text returns a composite equal to the first one, at once, without
\* invoking an adapter and without one HTTP request.
C1_RepeatIsCachedAndSilent ==
  \A c \in Callers :
    repeat[c] =>
      /\ pc[c] = "returned"
      /\ ret[c] = completed[query[c]]
      /\ invoked[c] = Zero
      /\ requests[c] = Zero

\* a repeated fetch has returned a composite that carries papers
C1_Witness ==
  \E c \in Callers :
    /\ repeat[c]
    /\ pc[c] = "returned"
    /\ Len(ret[c].recent_advancements) > 0

\* C2: every cache miss invokes exactly one summary adapter, the astronomy
\* one iff the lower-cased query contains a space keyword, and then invokes
\* the research-feed adapter exactly once.
C2_OneSummaryThenFeed ==
  \A c \in Callers :
    (pc[c] = "raised" \/ ReturnedMiss(c)) =>
      invoked[c] =
        [google |-> IF IsSpaceQuery(query[c]) THEN 0 ELSE 1,
         nasa   |-> IF IsSpaceQuery(query[c]) THEN 1 ELSE 0,
         arxiv  |-> 1]

SourceName == [google |-> "Google", nasa |-> "NASA"]

\* the labeled error text of a summary adapter after n attempts
SentinelText(a, n) ==
  "Error: " \o (IF a = "google" THEN "Google Search" ELSE "NASA")
    \o " API request failed after " \o ToString(n) \o " attempts."

\* the error texts of the attempt counts of the model; each names its
\* source and contains its count
Sentinels ==
  [a \in SummaryAdapters |-> [n \in 0..MaxRetries |-> SentinelText(a, n)]]

SentinelsAreLabeled ==
  \A a \in SummaryAdapters : \A n \in 0..MaxRetries :
    /\ Contains(Sentinels[a][n], "Error")
    /\ Contains(Sentinels[a][n], SourceName[a])
    /\ Contains(Sentinels[a][n], ToString(n))

\* C3: a summary adapter whose N = max_retries requests were all answered
\* with a non-success status has made exactly N requests, makes no further
\* one, raises nothing and returns its error text, which names the source
\* and contains N.
C3_SummaryExhaustion ==
  \A c \in Callers : \A a \in SummaryAdapters :
    /\ requests[c][a] <= max_retries
    /\ (invoked[c][a] = 1 /\ sleeps[c][a] = max_retries) =>
         /\ requests[c][a] = max_retries
         /\ pc[c] # Awaiting[a]
         /\ pc[c] = "raised" => invoked[c]["arxiv"] = 1
         /\ resolved[c][a] = 1 =>
              /\ data[c] = Sentinels[a][max_retries]
              /\ SentinelsAreLabeled

\* the web-search adapter has returned after MaxRetries > 0 failed attempts
C3_Witness ==
  \E c \in Callers :
    /\ max_retries = MaxRetries
    /\ max_retries > 0
    /\ sleeps[c]["google"] = max_retries
    /\ resolved[c]["google"] = 1
    /\ data[c] = Sentinels["google"][max_retries]

\* C4: the research-feed adapter whose N = max_retries requests (N = 0
\* included) were all answered with a non-success status has made exactly N
\* requests, parsed nothing, raised nothing and returned the empty sequence,
\* and the composite of that fetch has recent_advancements empty.
C4_FeedExhaustion ==
  \A c \in Callers :
    /\ requests[c]["arxiv"] <= max_retries
    /\ (invoked[c]["arxiv"] = 1 /\ sleeps[c]["arxiv"] = max_retries) =>
         /\ requests[c]["arxiv"] = max_retries
         /\ parses[c] = 0
         /\ pc[c] \notin {"arxiv_resp", "raised"}
         /\ resolved[c]["arxiv"] = 1 => research_data[c] = <<>>
         /\ pc[c] = "returned" =>
              /\ ret[c].recent_advancements = <<>>
              /\ cache[query[c]].recent_advancements = <<>>

\* a fetch has returned after MaxRetries > 0 failed requests to the feed
C4_Witness ==
  \E c \in Callers :
    /\ max_retries = MaxRetries
    /\ max_retries > 0
    /\ sleeps[c]["arxiv"] = max_retries
    /\ requests[c]["arxiv"] = max_retries
    /\ pc[c] = "returned"
    /\ ret[c].recent_advancements = <<>>

\* C5, as stated: every paper of every composite returned or cached has
\* year >= (current year - 5).
C5_RecentAgainstTheClock ==
  /\ \A q \in DOMAIN cache :
       \A y \in PaperYears(cache[q].recent_advancements) : y >= now_year - 5
  /\ \A c \in Callers :
       pc[c] = "returned" =>
         \A y \in PaperYears(ret[c].recent_advancements) : y >= now_year - 5

\* the papers of a list are recent relative to the year `read`
RecentAsOf(list, read) == \A y \in PaperYears(list) : y >= read - 5

\* the list a feed adapter call hands back is recent as of the year it read
C5_Inv ==
  \A c \in Callers :
    pc[c] \in {"combine", "store"} =>
      RecentAsOf(research_data[c], current_year[c])

\* the feed adapter returns: of the entries of the document it parsed, the
\* one dated (year read - 5) is among the papers, the one dated
\* (year read - 6) is not
C5_Boundary ==
  \A c \in Callers :
    (pc[c] = "arxiv_resp" /\ pc'[c] = "combine") =>
      \A i \in DOMAIN response[c].body :
        LET e == response[c].body[i]
            kept == \E j \in DOMAIN research_data'[c] :
                      research_data'[c][j].published = e.published
        IN  /\ e = Entry(current_year[c] - 5) => kept
            /\ e = Entry(current_year[c] - 6) => ~kept

\* a composite enters the cache, or is returned by a miss, with papers
\* recent as of the year its feed adapter read; a cached composite is not
\* altered afterwards and a hit returns it as it is
C5_Kept ==
  /\ \A c \in Callers :
       /\ (pc[c] = "combine" /\ pc'[c] = "store") =>
            RecentAsOf(cache'[query[c]].recent_advancements, current_year[c])
       /\ (pc[c] = "store" /\ pc'[c] = "returned") =>
            RecentAsOf(ret'[c].recent_advancements, current_year[c])
  /\ \A q \in DOMAIN cache :
       /\ q \in DOMAIN cache'
       /\ cache'[q].recent_advancements = cache[q].recent_advancements
  /\ \A q \in DOMAIN cache' :
       q \notin DOMAIN cache =>
         \E c \in Callers : pc[c] = "combine" /\ query[c] = q
  /\ \A c \in Callers :
       (pc[c] = "idle" /\ pc'[c] = "returned") =>
         ret'[c].recent_advancements =
           cache[query'[c]].recent_advancements

\* C5, amended: every paper of a list the research-feed adapter returns, and
\* of every composite returned or cached, has year >= (the year that adapter
\* call read from the clock - 5); an entry dated exactly that year - 5 is
\* retained and one dated that year - 6 is dropped.
C5_RecentAsOfFetch ==
  []C5_Inv /\ [][C5_Boundary]_vars /\ [][C5_Kept]_vars

\* a miss has returned a composite that holds a paper dated exactly
\* (year read - 5), and the clock has since moved to a later year
C5_Witness ==
  \E c \in Callers :
    /\ ReturnedMiss(c)
    /\ now_year > current_year[c]
    /\ current_year[c] - 5 \in PaperYears(ret[c].recent_advancements)

\* the sample entries whose published field does not parse
Malformed == {BadEntry, NoDateEntry, LeapSecondEntry}

\* the well-formed sample entries dated no earlier than (year - 5)
RecentSamples(year) ==
  {Entry(y) : y \in {z \in {BaseYear, BaseYear - 5, BaseYear - 6} :
                       z >= year - 5}}

PublishedOf(list) ==
  [i \in DOMAIN list |-> GetOr(list[i], "published", "")]

\* C6: an entry whose published field does not parse gets year 0 and is
\* left out of the papers, and the batch goes on: the papers are exactly the
\* well-formed recent entries of the feed, in feed order.
C6_MalformedEntrySkipped ==
  /\ \A e \in Malformed : PublishedYear(e) = 0
  /\ feed_pc = "parsed" =>
       LET Recent(e) == e \in RecentSamples(feed_year)
       IN  /\ PublishedOf(papers) = PublishedOf(SelectSeq(feed, Recent))
           /\ \A j \in DOMAIN papers : papers[j].year # 0

\* a feed that opens with a malformed entry followed by a recent one has been
\* parsed, and the recent one is among the papers
C6_Witness ==
  /\ feed_pc = "parsed"
  /\ Len(feed) >= 2
  /\ feed[1] = BadEntry
  /\ feed[2] = Entry(feed_year)
  /\ Len(papers) >= 1
  /\ papers[1].published = Stamp(feed_year)

\* a value with exactly the fields summary (a text) and recent_advancements
\* (a sequence)
IsComposite(v) ==
  /\ DOMAIN v = {"summary", "recent_advancements"}
  /\ v.summary \in STRING
  /\ DOMAIN v.recent_advancements = 1..Len(v.recent_advancements)

\* C7: every value fetch_external_data returns, and every value in the
\* cache, is a composite with exactly the fields summary and
\* recent_advancements; it is never None.
C7_CompositeShape ==
  /\ \A c \in Callers : pc[c] = "returned" => IsComposite(ret[c])
  /\ \A q \in DOMAIN cache : IsComposite(cache[q])

\* a cache hit has returned a composite made when both sources were exhausted
C7_Witness ==
  \E c \in Callers :
    /\ pc[c] = "returned"
    /\ repeat[c]
    /\ max_retries > 0
    /\ ret[c] = Composite(Sentinels["google"][max_retries], <<>>)

C8_Inv ==
  \A c \in Callers :
    pc[c] \in {"google", "google_resp", "nasa", "nasa_resp", "arxiv",
               "arxiv_resp", "combine"} => query[c] \notin DOMAIN cache

\* a key enters the cache only with the composite of a call whose summary
\* adapter and feed adapter have both returned
C8_Insert ==
  \A q \in Queries :
    (q \notin DOMAIN cache /\ q \in DOMAIN cache') =>
      \E c \in Callers :
        /\ query[c] = q
        /\ \E a \in SummaryAdapters : resolved[c][a] = 1
        /\ resolved[c]["arxiv"] = 1
        /\ cache'[q] = Composite(data[c], research_data[c])

\* C8: no partial result is cached: from the start of a miss until its
\* adapters have both returned the cache has no entry for the query, and
\* an entry is inserted only as the composite of both adapters' results.
C8_NoPartialResultCached == []C8_Inv /\ [][C8_Insert]_vars

\* a miss whose summary adapter has returned is waiting for the feed
C8_Witness ==
  \E c \in Callers :
    /\ pc[c] = "arxiv_resp"
    /\ resolved[c]["google"] = 1
    /\ data[c] = GoogleNoResults
    /\ query[c] \notin DOMAIN cache

\* C9: the web-search adapter returns a text for every response of its
\* source; no exception leaves it.
C9_WebSearchNeverRaises ==
  \A c \in Callers :
    ~(pc[c] = "raised" /\ invoked[c]["google"] = 1
        /\ resolved[c]["google"] = 0)

\* the request of adapter a failed in transport, or succeeded with a body
\* that does not decode or decodes to a value of another type than the
\* adapter reads
Fatal(a, r) ==
  IF r = ConnectionError THEN TRUE
  ELSE IF a = "arxiv" THEN FALSE
  ELSE RaisesInSummary(a, r)

\* a call ended by an exception of its summary adapter
RaisedInSummary(c) == pc[c] = "raised" /\ invoked[c]["arxiv"] = 0

C10_Inv ==
  \A c \in Callers :
    RaisedInSummary(c) =>
      /\ query[c] \notin DOMAIN cache
      /\ stored[c] = NoWrites
      /\ ret[c] = Null

C10_Step ==
  \A c \in Callers : \A a \in {"google", "nasa"} :
    (pc[c] = Awaiting[a] /\ Fatal(a, response[c]) /\ pc'[c] # pc[c]) =>
      /\ pc'[c] = "raised"
      /\ requests' = requests
      /\ cache' = cache
      /\ memory' = memory

\* C10: an exception raised in a summary adapter (transport failure, or on
\* status 200 a body that is undecodable or of the wrong type) is not retried and ends the call as an
\* error; the cache and the sink are as they were, the query is not cached.
C10_SummaryExceptionPropagates == []C10_Inv /\ [][C10_Step]_vars

\* the second attempt of the web-search adapter got an undecodable success
\* body and the call has raised, after an earlier call stored external_data
C10_Witness ==
  \E c \in Callers :
    /\ pc[c] = "raised"
    /\ response[c] = Response(200, InvalidJson)
    /\ invoked[c]["google"] = 1
    /\ sleeps[c]["google"] = 1
    /\ "external_data" \in DOMAIN memory

\* C11: a fetch that has returned, by a cache hit or by a miss, has stored
\* under external_data in the memory sink, once, exactly the composite it
\* returns; the sink's external_data equals the value just returned.
C11_SinkHoldsReturnedValue ==
  \A c \in Callers :
    pc[c] = "returned" =>
      /\ "external_data" \in DOMAIN memory
      /\ memory["external_data"] = ret[c]
      /\ stored[c].external_data = 1

\* a miss has returned a composite with papers while the sink held the
\* composite of an earlier fetch of another query
C11_Witness ==
  \E c \in Callers :
    /\ ReturnedMiss(c)
    /\ Len(ret[c].recent_advancements) > 0
    /\ DOMAIN completed \ {query[c]} # {}
    /\ memory["external_data"] = ret[c]

\* a cached entry is never removed and never replaced
CacheGrowsOnly ==
  \A q \in DOMAIN cache : q \in DOMAIN cache' /\ cache'[q] = cache[q]

\* between calls the keys of the cache are the queries whose fetch completed
CacheKeysAreCompleted == Quiescent => DOMAIN cache = DOMAIN completed

\* under single-threaded use the cache only grows and holds exactly the
\* queries whose fetch has completed
C12_CacheIsAppendOnly == []CacheKeysAreCompleted /\ [][CacheGrowsOnly]_vars

\* C12: under single-threaded use the keys of the cache are exactly the
\* queries whose fetch has completed, and the adapters run at most once per
\* query text: a call that invokes an adapter for a query is the first call
\* to do so.
C12_ProducedOncePerQuery ==
  /\ CacheKeysAreCompleted
  /\ \A c \in Callers : invoked[c] # Zero => query[c] \notin attempted

\* the positions of a call inside its summary adapter
InSummary == {"google", "google_resp", "nasa", "nasa_resp"}

\* the summary adapter of the call has returned
SummaryResolved(c) == \E a \in SummaryAdapters : resolved[c][a] = 1

\* where a miss stands agrees with what it has done so far: the feed adapter
\* is entered only after the summary adapter returned, the cache insert
\* follows the return of the feed adapter, the store follows the insert
C13_Inv ==
  \A c \in Callers :
    /\ pc[c] \in InSummary =>
         /\ invoked[c]["arxiv"] = 0
         /\ requests[c]["arxiv"] = 0
    /\ invoked[c]["arxiv"] = 1 => SummaryResolved(c)
    /\ requests[c]["arxiv"] > 0 => invoked[c]["arxiv"] = 1
    /\ stored[c].cache = 1 =>
         /\ resolved[c]["arxiv"] = 1
         /\ pc[c] \in {"store", "returned"}
    /\ (stored[c].external_data = 1 /\ invoked[c] # Zero) =>
         /\ stored[c].cache = 1
         /\ pc[c] = "returned"

\* while the call goes on, the summary adapter makes no request and no
\* delay once the feed adapter has been entered, and no adapter makes one
\* once the cache insert is done
C13_Step ==
  \A c \in Callers :
    pc'[c] # "idle" =>
      /\ invoked[c]["arxiv"] = 1 =>
           \A a \in SummaryAdapters :
             /\ requests'[c][a] = requests[c][a]
             /\ sleeps'[c][a] = sleeps[c][a]
      /\ stored[c].cache = 1 =>
           /\ requests'[c] = requests[c]
           /\ sleeps'[c] = sleeps[c]
           /\ cache' = cache

\* C13: within one miss every request and delay of the summary adapter
\* comes before the first request of the research-feed adapter, the cache
\* insert comes after the feed adapter has returned, and the store of
\* external_data comes after the cache insert.
C13_StepsInOrder == []C13_Inv /\ [][C13_Step]_vars

\* a miss has inserted into the cache and not yet stored, after a retried
\* web search and a retried feed request
C13_Witness ==
  \E c \in Callers :
    /\ pc[c] = "store"
    /\ sleeps[c]["google"] = 1
    /\ requests[c]["google"] = 2
    /\ sleeps[c]["arxiv"] = 1
    /\ requests[c]["arxiv"] = 2
    /\ stored[c] = [cache |-> 1, external_data |-> 0, external_urls |-> 1]

\* the source answered with the success status
Succeeded(r) == IF r = ConnectionError THEN FALSE ELSE r.status_code = 200

\* the source answered with another status
Refused(r) == IF r = ConnectionError THEN FALSE ELSE r.status_code # 200

\* the text a summary adapter makes of the decoded body of response r
SummaryOf(a, r) ==
  IF a = "nasa" THEN NasaResult(r.body.value)
  ELSE IF In("items", r.body.value)
       THEN GoogleResults(Item(r.body.value, "items"))
       ELSE GoogleNoResults

\* the delays made so far by the adapters of the call
Delays(c) == sleeps[c]["google"] + sleeps[c]["nasa"] + sleeps[c]["arxiv"]

\* in a retry loop every request but the pending one has failed and has been
\* followed by one delay of RetryDelay; an adapter that has returned either
\* succeeded on its last request or made max_retries requests and as many
\* delays
C14_Inv ==
  \A c \in Callers :
    /\ slept[c] = RetryDelay * Delays(c)
    /\ \A a \in Adapters :
         /\ requests[c][a] <= max_retries
         /\ pc[c] = a =>
              /\ requests[c][a] = attempt[c]
              /\ sleeps[c][a] = attempt[c]
         /\ pc[c] = Awaiting[a] =>
              /\ requests[c][a] = attempt[c] + 1
              /\ sleeps[c][a] = attempt[c]
         /\ resolved[c][a] = 1 =>
              \/ sleeps[c][a] = requests[c][a] - 1
              \/ sleeps[c][a] = max_retries /\ requests[c][a] = max_retries

\* the step that handles the response of attempt k: on the success status
\* the adapter returns what it makes of this response, with no further
\* request and no delay (or raises on an undecodable body, see C10); on
\* another status it makes one delay of RetryDelay, the last attempt
\* included, and goes back to the loop
C14_Step ==
  \A c \in Callers : \A a \in Adapters :
    (pc[c] = Awaiting[a] /\ pc'[c] # pc[c]) =>
      /\ requests'[c] = requests[c]
      /\ Succeeded(response[c]) =>
           /\ sleeps'[c] = sleeps[c]
           /\ slept'[c] = slept[c]
           /\ IF pc'[c] = "raised" THEN Fatal(a, response[c])
              ELSE /\ resolved'[c][a] = 1
                   /\ IF a = "arxiv"
                      THEN research_data'[c] =
                             ParseEntries(response[c].body, threshold_year[c])
                      ELSE data'[c] = SummaryOf(a, response[c])
      /\ Refused(response[c]) =>
           /\ sleeps'[c] = [sleeps[c] EXCEPT ![a] = @ + 1]
           /\ slept'[c] = slept[c] + RetryDelay
           /\ pc'[c] = a

\* the retry loops as the code runs them: requests and delays as in C14, the
\* adapter returning the data of the first success status unless its body
\* does not decode
C14_RetryCounts == []C14_Inv /\ [][C14_Step]_vars

\* C14: in each adapter retrying stops at the first success status: when it
\* arrives on attempt k the adapter has issued k requests and made k - 1
\* delays of RetryDelay and returns the data of attempt k (it does not end
\* by an exception); an exhausted adapter has made max_retries delays.
C14_RetryStopsAtFirstSuccess ==
  /\ C14_Inv
  /\ \A c \in Callers : pc[c] = "raised" => ~Succeeded(response[c])

\* the web search succeeded with items on its last attempt after
\* MaxRetries - 1 delays, and the feed was then exhausted
RetriedThenSucceeded ==
  \E c \in Callers :
    /\ max_retries = MaxRetries
    /\ max_retries > 1
    /\ resolved[c]["google"] = 1
    /\ requests[c]["google"] = max_retries
    /\ sleeps[c]["google"] = max_retries - 1
    /\ data[c] = GoogleResults(List(<<item1, item2>>))
    /\ resolved[c]["arxiv"] = 1
    /\ sleeps[c]["arxiv"] = max_retries
    /\ slept[c] = RetryDelay * (2 * max_retries - 1)

\* adapter a of the call gave up after max_retries failed attempts
GaveUp(c, a) == resolved[c][a] = 1 /\ sleeps[c][a] = max_retries

\* the composite holds an error text of a summary adapter or no paper
Degraded(v) ==
  \/ \E a \in SummaryAdapters : v.summary = Sentinels[a][max_retries]
  \/ v.recent_advancements = <<>>

\* C15: a miss that returns after a source was exhausted has cached its
\* degraded composite (the error text and/or the empty paper list) as it
\* returns it, the cache keeps it, and every later fetch of the query returns
\* that composite without a request and without invoking an adapter.
C15_DegradedResultIsCached ==
  /\ \A c \in Callers :
       (pc[c] = "returned" /\ \E a \in Adapters : GaveUp(c, a)) =>
         /\ Degraded(ret[c])
         /\ query[c] \in DOMAIN cache
         /\ cache[query[c]] = ret[c]
  /\ \A q \in DOMAIN completed :
       Degraded(completed[q]) => q \in DOMAIN cache /\ cache[q] = completed[q]
  /\ \A c \in Callers :
       (repeat[c] /\ Degraded(completed[query[c]])) =>
         /\ pc[c] = "returned"
         /\ ret[c] = completed[query[c]]
         /\ requests[c] = Zero
         /\ invoked[c] = Zero

\* a repeated fetch of the astronomy query has returned the composite made
\* when both of its sources were exhausted
C15_Witness ==
  \E c \in Callers :
    /\ max_retries = MaxRetries
    /\ repeat[c]
    /\ pc[c] = "returned"
    /\ query[c] = "latest asteroid discovery"
    /\ ret[c] = Composite(NasaSentinel(max_retries), <<>>)
    /\ requests[c] = Zero

\* the papers ps are made, in order, of entries of es taken in order, each
\* entry used at most once
RECURSIVE Embeds(_, _)
Embeds(ps, es) ==
  IF Len(ps) = 0 THEN TRUE
  ELSE IF Len(es) = 0 THEN FALSE
  ELSE IF Head(ps) = Pointer(Head(es)) THEN Embeds(Tail(ps), Tail(es))
  ELSE Embeds(ps, Tail(es))

\* the positions of the feed whose entry passes the filter of line 128
RetainedAt(es, threshold) ==
  {i \in DOMAIN es : PublishedYear(es[i]) >= threshold}

\* C16: the papers are an order-preserving subsequence of the entries of
\* the feed: one paper for each retained entry, none twice, in the order
\* received, whatever the order of their dates.
C16_OrderPreservingSubsequence ==
  feed_pc = "parsed" =>
    /\ Embeds(papers, feed)
    /\ Len(papers) = Cardinality(RetainedAt(feed, ThresholdYear(feed_year)))

\* a feed whose retained entries came oldest first, around a malformed one,
\* has been parsed, and the papers are still oldest first
C16_Witness ==
  /\ feed_pc = "parsed"
  /\ feed = <<Entry(feed_year - 5), BadEntry, Entry(feed_year)>>
  /\ Len(papers) = 2
  /\ papers[1].year = feed_year - 5
  /\ papers[2].year = feed_year

\* the external_urls artifact of the sink, if there is one
Urls(mem) ==
  IF "external_urls" \in DOMAIN mem THEN <<mem["external_urls"]>> ELSE <<>>

\* a response with the success status and a decoded body
Decoded(r) ==
  IF r = ConnectionError THEN FALSE
  ELSE r.status_code = 200 /\ r.body.json

\* the web-search attempt of the call succeeded with the field items
WebItems(c) ==
  IF pc[c] = "google_resp" /\ Decoded(response[c])
  THEN In("items", response[c].body.value)
  ELSE FALSE

\* the web-search attempt of the call succeeded without the field items
WebNoItems(c) ==
  IF pc[c] = "google_resp" /\ Decoded(response[c])
  THEN /\ response[c].body.value.type # "NoneType"
       /\ ~In("items", response[c].body.value)
  ELSE FALSE

\* the links of the items, in result order
LinksInOrder(urls, items) ==
  /\ Len(urls) = Len(Iter(items))
  /\ \A i \in 1..Len(Iter(items)) : urls[i] = Get(Iter(items)[i], "link")

\* a call writes external_urls at most once, and only a web search that
\* returned the formatted items has written it
C17_Inv ==
  \A c \in Callers :
    /\ stored[c].external_urls <= 1
    /\ (repeat[c] \/ invoked[c]["nasa"] = 1) => stored[c].external_urls = 0
    /\ stored[c].external_urls = 1 =>
         /\ resolved[c]["google"] = 1
         /\ data[c] \notin {GoogleNoResults, Sentinels["google"][max_retries]}
    /\ (resolved[c]["google"] = 1 /\
        data[c] \in {GoogleNoResults, Sentinels["google"][max_retries]}) =>
         stored[c].external_urls = 0

\* a step that writes or changes external_urls is the step of a web-search
\* attempt that succeeded with items, and writes their links in order; a
\* web-search success without items returns the fixed text at once, with no
\* retry and no write to the sink
C17_Step ==
  /\ (Urls(memory') # Urls(memory) \/
      \E c \in Callers : stored'[c].external_urls > stored[c].external_urls)
       => \E c \in Callers :
            /\ WebItems(c)
            /\ pc'[c] = "arxiv"
            /\ LinksInOrder(memory'["external_urls"],
                            Item(response[c].body.value, "items"))
  /\ \A c \in Callers :
       (WebNoItems(c) /\ pc'[c] # pc[c]) =>
         /\ pc'[c] = "arxiv"
         /\ data'[c] = GoogleNoResults
         /\ requests'[c] = requests[c]
         /\ sleeps'[c] = sleeps[c]
         /\ memory' = memory

\* C17: external_urls is written only by a web-search attempt that succeeds
\* with the field items present, with the links in result order; a success
\* without items returns the fixed no-results text at once and, like an
\* exhausted web search, an astronomy fetch, the feed adapter and a cache
\* hit, leaves external_urls as it was.
C17_UrlsWrittenOnlyByWebItems == []C17_Inv /\ [][C17_Step]_vars

\* an astronomy fetch has returned while the sink still holds the links of
\* an earlier web search
C17_Witness ==
  \E c \in Callers :
    /\ pc[c] = "returned"
    /\ query[c] = "latest asteroid discovery"
    /\ stored[c].external_urls = 0
    /\ Urls(memory) = <<GoogleUrls(List(<<item1, item2>>))>>
    /\ "best pizza recipe" \in DOMAIN completed

\* every paper of the list carries the year and the parsed_date of its own
\* published timestamp, which parses; none carries the epoch origin
ParsedFromTimestamp(list) ==
  \A j \in DOMAIN list :
    /\ DatetimeStrptime(list[j].published).ok
    /\ list[j].year = DatetimeStrptime(list[j].published).year
    /\ list[j].parsed_date = StructTime(TimeStrptime(list[j].published))
    /\ list[j].parsed_date # StructTime(EpochOrigin)

\* C18: when the threshold (current year - 5) is greater than 0, every paper
\* of a returned or cached list has a published timestamp that parses, the
\* year of that timestamp and a parsed_date made of it; the epoch-origin
\* fallback appears in no result.
C18_NoEpochFallback ==
  /\ (feed_pc = "parsed" /\ ThresholdYear(feed_year) > 0) =>
       ParsedFromTimestamp(papers)
  /\ \A c \in Callers :
       (threshold_year[c] > 0 /\ pc[c] \in {"combine", "store", "returned"})
         => ParsedFromTimestamp(research_data[c])
  /\ ThresholdYear(BaseYear) > 0 =>
       \A q \in DOMAIN cache :
         ParsedFromTimestamp(cache[q].recent_advancements)

\* a feed with a leap-second entry, an entry with a month 13 and a recent
\* well-formed entry has been parsed into the one paper of the latter
C18_Witness ==
  /\ feed_pc = "parsed"
  /\ ThresholdYear(feed_year) > 0
  /\ feed = <<LeapSecondEntry, BadEntry, Entry(BaseYear)>>
  /\ Len(papers) = 1
  /\ papers[1].parsed_date = <<BaseYear, 1, 15, 10, 30, 0>>

\* a call is under way
Running(c) == pc[c] \notin {"idle", "returned", "raised"}

\* a call that is under way ends, by a return or by an exception
CallEnds ==
  \A c \in Callers : Running(c) ~> pc[c] \in {"returned", "raised"}

\* a hit issues no request; a miss issues at most max_retries requests to
\* one summary source and at most max_retries to the feed
RequestsBounded ==
  \A c \in Callers :
    /\ repeat[c] => requests[c] = Zero
    /\ \A a \in Adapters : requests[c][a] <= max_retries
    /\ requests[c]["google"] = 0 \/ requests[c]["nasa"] = 0

\* C19: when every request gets a response, a call returns: a hit without a
\* request, a miss after at most max_retries requests to one summary source
\* and at most max_retries to the feed, with its result cached and returned;
\* no call whose requests were all answered ends without returning.
C19_EveryCallReturns ==
  /\ RequestsBounded
  /\ \A c \in Callers :
       /\ pc[c] = "raised" => response[c] = ConnectionError
       /\ pc[c] = "returned" =>
            query[c] \in DOMAIN cache /\ cache[query[c]] = ret[c]

\* the call of thread c missed the cache and has inserted its composite
Inserted(c) == stored[c]["cache"] = 1

\* both threads are past the lookup of line 26 for one query, and neither has
\* inserted
BothPassedTheCheck ==
  /\ query[1] = query[2]
  /\ \A c \in Threads : pc[c] \notin {"idle", "returned", "raised"}
  /\ query[1] \notin DOMAIN cache

\* a call that inserted had missed, and invoked its summary adapter and the
\* feed adapter itself, whatever the other thread did; a call that hit
\* invoked none
C20_Inv ==
  \A c \in Threads :
    /\ Inserted(c) =>
         /\ pc[c] \in {"store", "returned"}
         /\ invoked[c][SummaryAdapter(query[c])] = 1
         /\ invoked[c]["arxiv"] = 1
    /\ (pc[c] = "returned" /\ ~Inserted(c)) => invoked[c] = Zero

\* the insert of line 41 replaces whatever entry the query has
C20_Step ==
  \A c \in Threads :
    (pc[c] = "combine" /\ pc'[c] = "store") =>
      /\ cache' = DictSet(cache, query[c], Result(c))
      /\ cache'[query[c]] = Result(c)

\* C20: with two calls interleaved on one instance and no lock, a call that
\* passed the cache check as a miss invokes its adapters and inserts whether
\* or not the other call does the same for the same query, and its insert
\* overwrites the entry the query already has.
C20_InterleavedCallsBothFetch == []C20_Inv /\ [][C20_Step]_vars

\* two calls for one query have both returned after both invoked the adapters
\* and inserted, and the cache holds the composite of one and no longer that
\* of the other
C20_Witness ==
  \E c, d \in Threads :
    /\ c # d
    /\ query[c] = query[d]
    /\ pc[c] = "returned" /\ pc[d] = "returned"
    /\ Inserted(c) /\ Inserted(d)
    /\ invoked[c]["arxiv"] = 1 /\ invoked[d]["arxiv"] = 1
    /\ requests[c] # Zero /\ requests[d] # Zero
    /\ cache[query[c]] = ret[d]
    /\ cache[query[c]] # ret[c]

====
